---- MODULE Spec2Model ----
(***************************************************************************)
(* go-PowerControl: the MQTT connection manager (mqtt/client.go), the      *)
(* topic codec (mqtt/handler.go), the device store and message log         *)
(* (models/*.go) and the application coordinator (app/app.go).             *)
(*                                                                         *)
(* Strings that the code inspects are sequences of one-character strings.  *)
(* The MQTT library (paho) is the environment.  What is assumed of it:     *)
(*   - client.Connect() starts one connection attempt in the background    *)
(*     (ConnectRetry is off); its token completes with success or error,   *)
(*     and the attempt is not cancelled when the caller stops waiting;     *)
(*   - the on-connect and connection-lost handlers of a session run on a   *)
(*     delivery context of that session, one at a time, in the order of    *)
(*     the events that caused them, some time after the event; a handler   *)
(*     whose event has happened still runs when the session is closed;     *)
(*   - IsConnected() of a session is true while it is connected or         *)
(*     reconnecting (AutoReconnect is on), false while the first attempt   *)
(*     is in progress;                                                     *)
(*   - CleanSession is on: a restored link has no subscription until a     *)
(*     SUBSCRIBE reaches the broker again.                                 *)
(***************************************************************************)
EXTENDS Integers, Sequences, FiniteSets, TLC

\* ----------------------------------------------------------------- bounds
MaxSessions == 2      \* sessions (mqtt.NewClient calls) in one run
MaxLoss == 1          \* link losses of one session
MaxPending == 1       \* session events whose handler has not run yet
MaxSize == 2          \* capacity the message log is constructed with
MaxLogLen == 3        \* appends to the message log between two Clear calls
MaxRecords == 3       \* records the device store holds
MaxNameLen == 2       \* characters of a device name or outlet number
MaxTextLen == 3       \* characters of a payload or state text

\* ---------------------------------------------------------------- strings
Power == <<"p", "o", "w", "e", "r">>
Outlets == <<"o", "u", "t", "l", "e", "t", "s">>
SetSuffix == <<"s", "e", "t">>
Slash == <<"/">>
Whitespace == {" ", "\t", "\n", "\r"}
Lower == <<"a","b","c","d","e","f","g","h","i","j","k","l","m",
           "n","o","p","q","r","s","t","u","v","w","x","y","z">>
Upper == <<"A","B","C","D","E","F","G","H","I","J","K","L","M",
           "N","O","P","Q","R","S","T","U","V","W","X","Y","Z">>

\* strings.Split(s, "/")
RECURSIVE Split(_)
Split(s) ==
    IF \A i \in 1..Len(s) : s[i] # "/"
    THEN <<s>>
    ELSE LET i == CHOOSE k \in 1..Len(s) :
                      s[k] = "/" /\ \A j \in 1..(k - 1) : s[j] # "/"
         IN  <<SubSeq(s, 1, i - 1)>> \o Split(SubSeq(s, i + 1, Len(s)))

\* strings.TrimSpace
RECURSIVE TrimSpace(_)
TrimSpace(s) ==
    IF s = <<>> THEN s
    ELSE IF s[1] \in Whitespace THEN TrimSpace(Tail(s))
    ELSE IF s[Len(s)] \in Whitespace THEN TrimSpace(SubSeq(s, 1, Len(s) - 1))
    ELSE s

\* strings.ToUpper
ToUpper(s) ==
    [i \in 1..Len(s) |->
        IF \E k \in 1..26 : Lower[k] = s[i]
        THEN Upper[CHOOSE k \in 1..26 : Lower[k] = s[i]]
        ELSE s[i]]

\* ------------------------------------------------------------ topic codec
\* a decoder that strips the blanks around the two names
ParseTopicTrimmed(topic) ==
    LET parts == Split(topic)
        bad == [ok |-> FALSE, device |-> <<>>, outlet |-> <<>>]
    IN  IF Len(parts) < 4 THEN bad
        ELSE IF parts[1] # Power THEN bad
        ELSE IF parts[3] # Outlets THEN bad
        ELSE IF TrimSpace(parts[2]) = <<>> \/ TrimSpace(parts[4]) = <<>> THEN bad
        ELSE [ok |-> TRUE, device |-> TrimSpace(parts[2]),
              outlet |-> TrimSpace(parts[4])]

\* ParseTopic: [ok, device, outlet]
ParseTopic(topic) ==
    LET parts == Split(topic)
        bad == [ok |-> FALSE, device |-> <<>>, outlet |-> <<>>]
    IN  IF Len(parts) < 4 THEN bad
        ELSE IF parts[1] # Power THEN bad
        ELSE IF parts[3] # Outlets THEN bad
        ELSE IF parts[2] = <<>> \/ parts[4] = <<>> THEN bad
        ELSE [ok |-> TRUE, device |-> parts[2], outlet |-> parts[4]]

\* a decoder that trims for the comparison only
ParsePayloadNoTrim(payload) ==
    LET p == TrimSpace(payload)
    IN  IF p = <<"0">> THEN <<"O", "F", "F">>
        ELSE IF p = <<"1">> THEN <<"O", "N">>
        ELSE payload

ParsePayload(payload) ==
    LET p == TrimSpace(payload)
    IN  IF p = <<"0">> THEN <<"O", "F", "F">>
        ELSE IF p = <<"1">> THEN <<"O", "N">>
        ELSE p

\* a command topic without its last segment
MakeCommandTopicNoSet(device, outlet) ==
    Power \o Slash \o device \o Slash \o Outlets \o Slash \o outlet

MakeCommandTopic(device, outlet) ==
    Power \o Slash \o device \o Slash \o Outlets \o Slash \o outlet
          \o Slash \o SetSuffix

\* an encoder that knows no state names
StatusToPayloadVerbatim(status) == ToUpper(TrimSpace(status))

\* an encoder that compares the text in the case it was given in
StatusToPayloadCaseSensitive(status) ==
    LET s == TrimSpace(status)
    IN  IF s = <<"O", "F", "F">> THEN <<"0">>
        ELSE IF s = <<"O", "N">> THEN <<"1">>
        ELSE ToUpper(s)

StatusToPayload(status) ==
    LET s == ToUpper(TrimSpace(status))
    IN  IF s = <<"O", "F", "F">> THEN <<"0">>
        ELSE IF s = <<"O", "N">> THEN <<"1">>
        ELSE s

\* ----------------------------------------------------------- device store
NewDeviceStore == [k \in {} |-> <<>>]

makeKey(deviceName, outletNumber) == deviceName \o <<":">> \o outletNumber

\* DeviceStore.Add
Add(devices, device) ==
    LET key == makeKey(device.DeviceName, device.OutletNumber)
    IN  [k \in (DOMAIN devices) \cup {key} |->
            IF k = key THEN device ELSE devices[k]]

\* the characters of the model in the order of their byte values
ByteOrder == <<"\t", "\n", "\r", " ", "#", "/",
               "0", "1", "2", "3", "4", "5", "6", "7", "8", "9", ":">>
             \o Upper \o Lower

Code(c) == CHOOSE i \in 1..Len(ByteOrder) : ByteOrder[i] = c

\* s > t of two Go strings: at the first place where they differ s has the
\* greater byte, or t ends there and s does not
StrGreater(s, t) ==
    \E i \in 1..Len(s) :
        /\ \A j \in 1..(i - 1) : j <= Len(t) /\ s[j] = t[j]
        /\ i > Len(t) \/ Code(s[i]) > Code(t[i])

\* strings.ToLower
ToLower(s) ==
    [i \in 1..Len(s) |->
        IF \E k \in 1..26 : Upper[k] = s[i]
        THEN Lower[CHOOSE k \in 1..26 : Upper[k] = s[i]]
        ELSE s[i]]

\* strings.Contains
Contains(s, substr) ==
    \E i \in 0..(Len(s) - Len(substr)) : SubSeq(s, i + 1, i + Len(substr)) = substr

\* the orders in which a range over the map can visit its keys
Orders(devices) ==
    {order \in [1..Cardinality(DOMAIN devices) -> DOMAIN devices] :
        \A i, j \in DOMAIN order : order[i] = order[j] => i = j}

\* an exchange condition that looks at the device name only
ExchangeByDeviceName(x, y) == StrGreater(x.DeviceName, y.DeviceName)

\* the condition on which the sort of GetAll and Filter exchanges two places
Exchange(x, y) ==
    \/ StrGreater(x.DeviceName, y.DeviceName)
    \/ /\ x.DeviceName = y.DeviceName
       /\ StrGreater(x.OutletNumber, y.OutletNumber)

\* the sort of GetAll and Filter, from the places i < j on: for i, for j > i,
\* exchange places i and j when they are out of order
RECURSIVE SortFrom(_, _, _)
SortFrom(devices, i, j) ==
    IF i > Len(devices) THEN devices
    ELSE IF j > Len(devices) THEN SortFrom(devices, i + 1, i + 2)
    ELSE IF Exchange(devices[i], devices[j])
    THEN SortFrom([devices EXCEPT ![i] = devices[j], ![j] = devices[i]], i, j + 1)
    ELSE SortFrom(devices, i, j + 1)

\* DeviceStore.GetAll, the range visiting the keys in the given order
DeviceStoreGetAll(devices, order) ==
    SortFrom([i \in 1..Len(order) |-> devices[order[i]]], 1, 2)

\* a match that compares the fields as they are stored
FilterMatchCaseSensitive(device, searchText) ==
    \/ Contains(device.DeviceName, searchText)
    \/ Contains(device.OutletNumber, searchText)
    \/ Contains(device.Status, searchText)

\* DeviceStore.Filter: whether a record matches the lower-cased search text
FilterMatch(device, searchText) ==
    \/ Contains(ToLower(device.DeviceName), searchText)
    \/ Contains(ToLower(device.OutletNumber), searchText)
    \/ Contains(ToLower(device.Status), searchText)

\* DeviceStore.Filter, the range visiting the keys in the given order
DeviceStoreFilter(devices, order, searchText) ==
    IF searchText = <<>> THEN DeviceStoreGetAll(devices, order)
    ELSE LET visited == [i \in 1..Len(order) |-> devices[order[i]]]
             Test(device) == FilterMatch(device, ToLower(searchText))
         IN  SortFrom(SelectSeq(visited, Test), 1, 2)

\* ------------------------------------------------------------ message log
DefaultMaxSize == 1000

\* NewMessageLog: the capacity of the log it returns
NewMessageLog(n) == IF n <= 0 THEN DefaultMaxSize ELSE n

\* an append that does not trim
AddMessageNoTrim(messages, size, direction, topic, payload) ==
    <<[Direction |-> direction, Topic |-> topic, Payload |-> payload]>> \o messages

\* MessageLog.AddMessage: newest first, trimmed to maxSize
AddMessage(messages, maxSize, direction, topic, payload) ==
    LET msg == [Direction |-> direction, Topic |-> topic, Payload |-> payload]
        all == <<msg>> \o messages
    IN  IF Len(all) > maxSize THEN SubSeq(all, 1, maxSize) ELSE all


\* ------------------------------------------------------------------ state
VARIABLES
    client,              \* Client.client: 0 (nil) or the session it points to
    connected,           \* Client.connected
    messageCallback,     \* Client.messageCallback: "nil", "app" or "obs"
    connectionCallback,  \* Client.connectionCallback
    sess,                \* the sessions created by mqtt.NewClient, by number
    config,              \* App.config
    deviceStore,         \* DeviceStore.devices
    messageLog,          \* MessageLog.messages
    maxSize,             \* MessageLog.maxSize
    thr,                 \* where the auto-connect goroutine ("auto") and the
                         \* UI-triggered call ("ui") stand
    released,            \* Disconnect has returned and Connect was not called since
    caller,              \* a direct caller of the log's methods: what it appended
                         \* since its last Clear, what GetAll returned to it
    mu,                  \* the RWMutex of the client, of the log and of the store:
                         \* whether it is write-locked, how many hold it for reading
    goroutine,           \* where a goroutine stands inside a method of the
                         \* client, the log or the store, with its local variables
    ev                   \* what the last step did: operation, results, calls made

vars == <<client, connected, messageCallback, connectionCallback, sess, config,
          deviceStore, messageLog, maxSize, thr, released, caller, mu,
          goroutine, ev>>

Sessions == 1..MaxSessions
Threads == {"auto", "ui"}

NoSession ==
    [st |-> "none",      \* none, connecting, failed, connected, reconnecting, closed
     filter |-> "",      \* cfg.SubscribeString of the Connect that made it
     subs |-> {},        \* the subscriptions the broker holds for it
     queue |-> <<>>,     \* its events whose handler has not run yet
     losses |-> 0,       \* its link losses so far
     ret |-> "none",     \* what Client.Connect returned for it ("wait": not yet)
     subok |-> FALSE,    \* a Client.Subscribe for its filter has returned nil on it
     notified |-> "none"]  \* the last value its handlers gave the status callback

\* config.DefaultConfig
DefaultConfig ==
    [Username |-> "", MQTTServer |-> "", ServerPort |-> 1883,
     SubscribeString |-> "power/#", pwok |-> TRUE]

\* a configuration file that config.Load accepts
StoredConfig(pwok) ==
    [Username |-> "user", MQTTServer |-> "broker", ServerPort |-> 1883,
     SubscribeString |-> "power/#", pwok |-> pwok]

\* Config.IsEmpty
IsEmpty(cfg) == cfg.MQTTServer = "" \/ cfg.Username = ""

\* op: the operation or handler; s: the session it is about; res: what it
\* returned to its caller; sub: what the Client.Subscribe it called returned;
\* wire: what reached the session ("issued", "registered" for a subscribe,
\* "handed", "dropped", "refused" for a publish); trace: the callbacks,
\* store and log calls and UI events, in program order
Ev(op, s, res, sub, wire, trace) ==
    [op |-> op, s |-> s, res |-> res, sub |-> sub, wire |-> wire, trace |-> trace]

\* sync.RWMutex, unlocked
Unlocked == [w |-> FALSE, r |-> 0]
NoLocks == [client |-> Unlocked, log |-> Unlocked, store |-> Unlocked]

\* the goroutines that run inside the methods, one step at a time: for the
\* log and the store a writer (the inbound handler, SendCommand, a clear)
\* and the readers; for the client the goroutine on which the session runs
\* the status handlers ("h"), the one on which it runs the message handler
\* ("m") and a foreground caller ("f")
Readers == {"r1", "r2"}
ClientGoroutines == {"h", "m", "f"}
Goroutines == {"w"} \cup Readers \cup ClientGoroutines
Outside == [pc |-> "out", op |-> "", loc |-> <<>>]
NoGoroutines == [g \in Goroutines |-> Outside]

\* the application keeps no list of its appends, and App.GetMessages hands
\* what GetAll returns to the UI at once: nothing is held
NoCaller == [appended |-> <<>>, returned |-> <<>>]

Init ==
    /\ client = 0
    /\ connected = FALSE
    /\ messageCallback = "nil"
    /\ connectionCallback = "nil"
    /\ sess = [s \in Sessions |-> NoSession]
    /\ config = DefaultConfig
    /\ deviceStore = NewDeviceStore
    /\ messageLog = <<>>
    /\ maxSize = NewMessageLog(MaxSize)
    /\ thr = [t \in Threads |-> [pc |-> IF t = "ui" THEN "new" ELSE "off", s |-> 0]]
    /\ released = FALSE
    /\ caller = NoCaller
    /\ mu = NoLocks
    /\ goroutine = NoGoroutines
    /\ ev = Ev("NewApp", 0, "", "none", "none", <<>>)

\* --------------------------------------------------- the session (library)
\* mqtt.Client.IsConnected of session cl
SessionIsConnected(ss, cl) == ss[cl].st \in {"connected", "reconnecting"}

\* the broker's topic-filter match, for the filters of the model
Matches(filter, topic) ==
    \/ filter = "#"
    \/ filter = "power/#" /\ Split(topic)[1] = Power

\* ------------------------------------------------------------ mqtt.Client
\* The calls a status callback makes: App.handleConnectionStatus emits
\* connection:status; another observer is only called.
StatusCallback(cb, v) ==
    IF cb = "nil" THEN <<>>
    ELSE IF cb = "app"
    THEN << <<"cb.status", cb, v>>, <<"emit", "connection:status", v>> >>
    ELSE << <<"cb.status", cb, v>> >>

\* the value a session's handler gave the status callback last
Notified(cb, v, old) == IF cb = "nil" THEN old ELSE v

\* Client.Subscribe: the results it can return in this state; reg says
\* whether the broker registered the subscription (a timed-out wait does
\* not tell)
SubscribeCan(cl, ss, res, reg) ==
    IF cl = 0 THEN res = "client not initialized" /\ ~reg
    ELSE IF ss[cl].st # "connected" THEN res = "subscribe failed" /\ ~reg
    ELSE \/ res = "ok" /\ reg
         \/ res = "subscribe timeout"
         \/ res = "subscribe failed" /\ ~reg

\* Client.Subscribe: its effect on the sessions
Subscribe(cl, ss, topic, res, reg) ==
    IF cl # 0 /\ ss[cl].st = "connected"
    THEN [ss EXCEPT ![cl].subs = IF reg THEN @ \cup {topic} ELSE @,
                    ![cl].subok = @ \/ (res = "ok" /\ topic = ss[cl].filter)]
    ELSE ss

\* Client.Subscribe: what reached the session
SubscribeWire(cl, ss, reg) ==
    IF cl # 0 /\ ss[cl].st = "connected"
    THEN (IF reg THEN "registered" ELSE "issued")
    ELSE "none"

SubResults == {"ok", "client not initialized", "subscribe timeout", "subscribe failed"}

\* Client.Disconnect: its effect on the sessions
DisconnectSession(cl, ss) ==
    IF cl # 0 /\ SessionIsConnected(ss, cl)
    THEN [ss EXCEPT ![cl].st = "closed", ![cl].subs = {}]
    ELSE ss

\* a Disconnect that clears the flag only when it closes a session
DisconnectFlagIfLive(cl, ss, flag) ==
    IF cl # 0 /\ ss[cl].st \in {"connected", "reconnecting"} THEN FALSE ELSE flag

\* Client.Disconnect: the flag it leaves
DisconnectFlag(cl, ss, flag) == FALSE

\* a Connect that does not look at the stored password before it connects
ConnectCheckNoDecrypt(cfg) ==
    IF cfg.MQTTServer = "" THEN "MQTT server not configured" ELSE "started"

\* Client.Connect up to the wait: "started", or the error it returns at once
ConnectCheck(cfg) ==
    IF cfg.MQTTServer = "" THEN "MQTT server not configured"
    ELSE IF ~cfg.pwok THEN "failed to decrypt password"
    ELSE "started"

FreeSession(ss) == CHOOSE s \in Sessions :
    ss[s].st = "none" /\ \A r \in Sessions : r < s => ss[r].st # "none"

\* mqtt.NewClient(opts) and client.Connect(): a new session, connecting
NewSession(cfg) ==
    [NoSession EXCEPT !.st = "connecting", !.ret = "wait",
                      !.filter = cfg.SubscribeString]

\* Client.Connect after the wait: what it returns.  The connect token of a
\* session is pending while it is connecting, has an error when the attempt
\* failed, and has completed without error otherwise.
ConnectResult(st) ==
    IF st = "connecting" THEN "connection timeout"
    ELSE IF st = "failed" THEN "connection failed"
    ELSE "ok"

\* Client.Connect after the wait: the flag it leaves
ConnectFlag(st, flag) == IF ConnectResult(st) = "ok" THEN TRUE ELSE flag

\* a Publish that relies on the session alone, without reading the flag
PublishCanNoFlag(cl, flag, ss, res, wire) ==
    IF cl = 0 THEN res = "client not initialized" /\ wire = "none"
    ELSE IF ss[cl].st = "connected"
    THEN wire = "handed" /\ res \in {"ok", "publish timeout", "publish failed"}
    ELSE IF ss[cl].st = "reconnecting" THEN wire = "dropped" /\ res = "ok"
    ELSE wire = "refused" /\ res = "publish failed"

\* Client.Publish: result and whether the request was handed to the session
\* (wire).  A reconnecting session completes a QoS 0 publish at once without
\* sending it; a session that is not connected refuses it.
PublishCan(cl, flag, ss, res, wire) ==
    IF cl = 0 THEN res = "client not initialized" /\ wire = "none"
    ELSE IF ~flag THEN res = "not connected to broker" /\ wire = "none"
    ELSE IF ss[cl].st = "connected"
    THEN wire = "handed" /\ res \in {"ok", "publish timeout", "publish failed"}
    ELSE IF ss[cl].st = "reconnecting" THEN wire = "dropped" /\ res = "ok"
    ELSE wire = "refused" /\ res = "publish failed"

PubResults == {"ok", "client not initialized", "not connected to broker",
               "publish timeout", "publish failed"}


\* ------------------------------------------------------------ application
\* a handler that decodes the topic first and drops what it cannot decode
handleMQTTMessageParseFirst(messages, devices, topic, payload) ==
    LET parsed == ParseTopic(topic)
        deviceOutlet == [DeviceName |-> parsed.device,
                         OutletNumber |-> parsed.outlet,
                         Status |-> ParsePayload(payload)]
    IN  IF ~parsed.ok
        THEN [messages |-> messages, devices |-> devices, trace |-> <<>>]
        ELSE [messages |-> AddMessage(messages, maxSize, "Recv", topic, payload),
              devices |-> Add(devices, deviceOutlet),
              trace |-> << <<"log.add", "Recv">>, <<"emit", "message:new">>,
                           <<"store.add">>, <<"emit", "device:update">> >>]

\* App.handleMQTTMessage: the log, the store and the calls it makes
handleMQTTMessage(messages, devices, topic, payload) ==
    LET logged == AddMessage(messages, maxSize, "Recv", topic, payload)
        parsed == ParseTopic(topic)
        deviceOutlet == [DeviceName |-> parsed.device,
                         OutletNumber |-> parsed.outlet,
                         Status |-> ParsePayload(payload)]
    IN  IF ~parsed.ok
        THEN [messages |-> logged, devices |-> devices,
              trace |-> << <<"log.add", "Recv">>, <<"emit", "message:new">> >>]
        ELSE [messages |-> logged, devices |-> Add(devices, deviceOutlet),
              trace |-> << <<"log.add", "Recv">>, <<"emit", "message:new">>,
                           <<"store.add">>, <<"emit", "device:update">> >>]

\* the configurations config.Load can hand to Startup
LoadedConfigs == {DefaultConfig, StoredConfig(TRUE), StoredConfig(FALSE)}

\* the status messages the broker sends in the model
InTopic == Power \o Slash \o <<"a">> \o Slash \o Outlets \o Slash \o <<"1">>
InPayloads == {<<"1">>}

Idle(t) == IF t = "ui" THEN "idle" ELSE "off"

\* App.Startup
Startup(cfg) ==
    /\ thr["ui"].pc = "new"
    /\ config' = cfg
    /\ messageCallback' = "app"
    /\ connectionCallback' = "app"
    /\ thr' = [thr EXCEPT !["ui"].pc = "idle",
                          !["auto"].pc = IF IsEmpty(cfg) THEN "off" ELSE "connect"]
    /\ ev' = Ev("Startup", 0, "", "none", "none", <<>>)
    /\ UNCHANGED <<mu, goroutine, caller, maxSize, client, connected, sess, deviceStore,
                   messageLog, released>>

\* App.connectMQTT, first part: Client.Connect up to its wait.  In
\* SaveSettings it follows deviceStore.Clear().
ConnectStart(t) ==
    /\ thr[t].pc = "connect"
    /\ deviceStore' = IF t = "ui" THEN NewDeviceStore ELSE deviceStore
    /\ released' = FALSE
    /\ IF ConnectCheck(config) # "started"
       THEN /\ thr' = [thr EXCEPT ![t].pc = Idle(t)]
            /\ ev' = Ev("Connect", 0, ConnectCheck(config), "none", "none", <<>>)
            /\ UNCHANGED <<client, sess>>
       ELSE /\ \E s \in Sessions : sess[s].st = "none"
            /\ LET n == FreeSession(sess)
               IN  /\ sess' = [sess EXCEPT ![n] = NewSession(config)]
                   /\ client' = n
                   /\ thr' = [thr EXCEPT ![t] = [pc |-> "wait", s |-> n]]
                   /\ ev' = Ev("Connect", n, "started", "none", "none", <<>>)
    /\ UNCHANGED <<mu, goroutine, caller, maxSize, connected, messageCallback,
                   connectionCallback, config, messageLog>>

\* a Connect that waits for its token without a timeout
ConnectWaitNoTimeout(t) ==
    /\ thr[t].pc = "wait"
    /\ sess[thr[t].s].st # "connecting"
    /\ LET s == thr[t].s
           r == ConnectResult(sess[s].st)
       IN  /\ connected' = ConnectFlag(sess[s].st, connected)
           /\ sess' = [sess EXCEPT ![s].ret = r]
           /\ thr' = [thr EXCEPT ![t].pc = IF r = "ok" THEN "sub" ELSE Idle(t)]
           /\ ev' = Ev("ConnectReturn", s, r, "none", "none", <<>>)
    /\ UNCHANGED <<mu, goroutine, caller, maxSize, client, messageCallback,
                   connectionCallback, config, deviceStore, messageLog,
                   released>>

\* App.connectMQTT, second part: Client.Connect from its wait to its return
ConnectWait(t) ==
    /\ thr[t].pc = "wait"
    /\ LET s == thr[t].s
           r == ConnectResult(sess[s].st)
       IN  /\ connected' = ConnectFlag(sess[s].st, connected)
           /\ sess' = [sess EXCEPT ![s].ret = r]
           /\ thr' = [thr EXCEPT ![t].pc = IF r = "ok" THEN "sub" ELSE Idle(t)]
           /\ ev' = Ev("ConnectReturn", s, r, "none", "none", <<>>)
    /\ UNCHANGED <<mu, goroutine, caller, maxSize, client, messageCallback,
                   connectionCallback, config, deviceStore, messageLog,
                   released>>

\* App.connectMQTT, last part: Client.Subscribe(a.config.SubscribeString)
ConnectSubscribe(t) ==
    /\ thr[t].pc = "sub"
    /\ \E res \in SubResults, reg \in BOOLEAN :
          /\ SubscribeCan(client, sess, res, reg)
          /\ sess' = Subscribe(client, sess, config.SubscribeString, res, reg)
          /\ ev' = Ev("Subscribe", client, res, res,
                      SubscribeWire(client, sess, reg), <<>>)
    /\ thr' = [thr EXCEPT ![t].pc = Idle(t)]
    /\ UNCHANGED <<mu, goroutine, caller, maxSize, client, connected, messageCallback,
                   connectionCallback, config, deviceStore, messageLog,
                   released>>

\* a Validate that accepts any port
ValidateNoPortCheck(cfg) ==
    IF cfg.SubscribeString = ""
    THEN [ok |-> TRUE, cfg |-> [cfg EXCEPT !.SubscribeString = "power/#"]]
    ELSE [ok |-> TRUE, cfg |-> cfg]

\* Config.Validate: whether it accepts, and the configuration it leaves
Validate(cfg) ==
    IF cfg.ServerPort < 1 \/ cfg.ServerPort > 65535 THEN [ok |-> FALSE, cfg |-> cfg]
    ELSE IF cfg.SubscribeString = ""
    THEN [ok |-> TRUE, cfg |-> [cfg EXCEPT !.SubscribeString = "power/#"]]
    ELSE [ok |-> TRUE, cfg |-> cfg]

\* a settings change that keeps the session it finds
SaveSettingsKeepSession(server, port, subscribeString, encOk, diskOk) ==
    /\ thr["ui"].pc = "idle"
    /\ LET cfg == [Username |-> "user", MQTTServer |-> server, ServerPort |-> port,
                   SubscribeString |-> subscribeString, pwok |-> TRUE]
       IN  /\ config' = cfg
           /\ released' = TRUE
           /\ thr' = [thr EXCEPT !["ui"].pc = "connect"]
           /\ ev' = Ev("SaveSettings", client, "", "none", "none", <<>>)
    /\ UNCHANGED <<mu, goroutine, caller, maxSize, client, messageCallback,
                   connectionCallback, deviceStore, messageLog, sess,
                   connected>>

\* App.SaveSettings up to and including mqttClient.Disconnect()
SaveSettings(server, port, subscribeString, encOk, diskOk) ==
    /\ thr["ui"].pc = "idle"
    /\ LET cfg == [Username |-> "user", MQTTServer |-> server, ServerPort |-> port,
                   SubscribeString |-> subscribeString, pwok |-> TRUE]
           err == IF ~encOk THEN "failed to encrypt password"
                  ELSE IF ~Validate(cfg).ok THEN "invalid configuration"
                  ELSE IF ~diskOk THEN "failed to save config"
                  ELSE ""
       IN  IF err # ""
           THEN /\ ev' = Ev("SaveSettings", 0, err, "none", "none", <<>>)
                /\ UNCHANGED <<config, sess, connected, released, thr>>
           ELSE /\ config' = Validate(cfg).cfg
                /\ sess' = DisconnectSession(client, sess)
                /\ connected' = DisconnectFlag(client, sess, connected)
                /\ released' = TRUE
                /\ thr' = [thr EXCEPT !["ui"].pc = "connect"]
                /\ ev' = Ev("SaveSettings", client, "", "none", "none", <<>>)
    /\ UNCHANGED <<mu, goroutine, caller, maxSize, client, messageCallback,
                   connectionCallback, deviceStore, messageLog>>

\* App.Disconnect: Client.Disconnect
Disconnect ==
    /\ thr["ui"].pc = "idle"
    /\ sess' = DisconnectSession(client, sess)
    /\ connected' = DisconnectFlag(client, sess, connected)
    /\ released' = TRUE
    /\ ev' = Ev("Disconnect", client, "", "none", "none", <<>>)
    /\ UNCHANGED <<mu, goroutine, caller, maxSize, client, messageCallback,
                   connectionCallback, config, deviceStore, messageLog, thr>>

\* App.SendCommand
SendCommand(deviceName, outletNumber, state) ==
    /\ thr["ui"].pc = "idle"
    /\ LET topic == MakeCommandTopic(deviceName, outletNumber)
           payload == StatusToPayload(state)
           call == <<"SendCommand", deviceName, outletNumber, state>>
       IN  \E res \in PubResults, pub \in {"none", "handed", "dropped", "refused"} :
              /\ PublishCan(client, connected, sess, res, pub)
              /\ LET published == IF pub = "none" THEN <<call>>
                                  ELSE <<call, <<"publish", topic, payload>> >>
                 IN  IF res # "ok"
                     THEN /\ UNCHANGED messageLog
                          /\ ev' = Ev("SendCommand", client, res, "none", pub, published)
                     ELSE /\ messageLog' = AddMessage(messageLog, maxSize, "Send",
                                                      topic, payload)
                          /\ ev' = Ev("SendCommand", client, res, "none", pub,
                                      published \o << <<"log.add", "Send">>,
                                                      <<"emit", "message:new">> >>)
    /\ UNCHANGED <<mu, goroutine, caller, maxSize, client, connected, messageCallback,
                   connectionCallback, sess, config, deviceStore, thr,
                   released>>

\* a ClearLog that empties the device store as well
ClearLogAndDevices ==
    /\ thr["ui"].pc = "idle"
    /\ messageLog' = <<>>
    /\ deviceStore' = NewDeviceStore
    /\ ev' = Ev("ClearLog", 0, "", "none", "none", << <<"emit", "log:cleared">> >>)
    /\ UNCHANGED <<mu, goroutine, caller, maxSize, client, connected, messageCallback,
                   connectionCallback, sess, config, thr, released>>

\* a ClearLog that emits no notification
ClearLogSilent ==
    /\ thr["ui"].pc = "idle"
    /\ messageLog' = <<>>
    /\ ev' = Ev("ClearLog", 0, "", "none", "none", <<>>)
    /\ UNCHANGED <<mu, goroutine, caller, maxSize, client, connected, messageCallback,
                   connectionCallback, sess, config, deviceStore, thr,
                   released>>

\* App.ClearLog
ClearLog ==
    /\ thr["ui"].pc = "idle"
    /\ messageLog' = <<>>
    /\ ev' = Ev("ClearLog", 0, "", "none", "none", << <<"emit", "log:cleared">> >>)
    /\ UNCHANGED <<mu, goroutine, caller, maxSize, client, connected, messageCallback,
                   connectionCallback, sess, config, deviceStore, thr,
                   released>>

\* a registration that keeps a callback already registered
SetMessageCallbackKeepFirst(callback) ==
    /\ thr["ui"].pc = "idle"
    /\ messageCallback' = IF messageCallback = "nil" THEN callback ELSE messageCallback
    /\ ev' = Ev("SetMessageCallback", 0, callback, "none", "none", <<>>)
    /\ UNCHANGED <<mu, goroutine, caller, maxSize, client, connected, connectionCallback,
                   sess, config, deviceStore, messageLog, thr, released>>

\* Client.SetMessageCallback
SetMessageCallback(callback) ==
    /\ thr["ui"].pc = "idle"
    /\ messageCallback' = callback
    /\ ev' = Ev("SetMessageCallback", 0, callback, "none", "none", <<>>)
    /\ UNCHANGED <<mu, goroutine, caller, maxSize, client, connected, connectionCallback,
                   sess, config, deviceStore, messageLog, thr, released>>

\* Client.SetConnectionCallback
SetConnectionCallback(callback) ==
    /\ thr["ui"].pc = "idle"
    /\ connectionCallback' = callback
    /\ ev' = Ev("SetConnectionCallback", 0, callback, "none", "none", <<>>)
    /\ UNCHANGED <<mu, goroutine, caller, maxSize, client, connected, messageCallback, sess,
                   config, deviceStore, messageLog, thr, released>>

\* ------------------------------------------------ the message log's methods
\* a writer that shifts and cuts the entries in storage that the sequences
\* GetAll returned share with the log
RetainedShared(result, messages) ==
    SubSeq(messages, 1, IF Len(messages) < Len(result) THEN Len(messages)
                        ELSE Len(result))

\* What a sequence that GetAll returned holds once AddMessage or Clear has
\* left `messages` in the log: GetAll copied the entries into an array of
\* its own, and both writers build a new array for the log, so no write
\* reaches it.
Retained(result, messages) == result

\* a GetAll that returns the entries in the order of their arrival
RECURSIVE GetAllOldestFirst(_)
GetAllOldestFirst(messages) ==
    IF messages = <<>> THEN <<>>
    ELSE Append(GetAllOldestFirst(Tail(messages)), Head(messages))

\* MessageLog.GetAll: a copy of l.messages
GetAll(messages) == [i \in 1..Len(messages) |-> messages[i]]

\* MessageLog.AddMessage
MessageLogAdd(direction, topic, payload) ==
    /\ Len(caller.appended) < MaxLogLen
    /\ messageLog' = AddMessage(messageLog, maxSize, direction, topic, payload)
    /\ caller' = [appended |-> Append(caller.appended,
                      [Direction |-> direction, Topic |-> topic, Payload |-> payload]),
                  returned |-> Retained(caller.returned, messageLog')]
    /\ ev' = Ev("AddMessage", 0, "", "none", "none", << <<"len", Len(messageLog)>> >>)
    /\ UNCHANGED <<mu, goroutine, maxSize, client, connected, messageCallback,
                   connectionCallback, sess, config, deviceStore, thr,
                   released>>

\* MessageLog.Clear
MessageLogClear ==
    /\ messageLog' = <<>>
    /\ caller' = [appended |-> <<>>,
                  returned |-> Retained(caller.returned, messageLog')]
    /\ ev' = Ev("Clear", 0, "", "none", "none", <<>>)
    /\ UNCHANGED <<mu, goroutine, maxSize, client, connected, messageCallback,
                   connectionCallback, sess, config, deviceStore, thr,
                   released>>

\* MessageLog.GetAll
MessageLogGetAll ==
    /\ caller' = [caller EXCEPT !.returned = GetAll(messageLog)]
    /\ ev' = Ev("GetAll", 0, "", "none", "none",
                << <<"result", GetAll(messageLog)>> >>)
    /\ UNCHANGED <<mu, goroutine, maxSize, client, connected, messageCallback,
                   connectionCallback, sess, config, deviceStore, messageLog,
                   thr, released>>

\* MessageLog.Count
MessageLogCount ==
    /\ ev' = Ev("Count", 0, "", "none", "none", << <<"result", Len(messageLog)>> >>)
    /\ UNCHANGED <<mu, goroutine, caller, maxSize, client, connected, messageCallback,
                   connectionCallback, sess, config, deviceStore, messageLog,
                   thr, released>>

\* ----------------------------------------------- the device store's methods
\* DeviceStore.Add
DeviceStoreAdd(device) ==
    /\ \/ makeKey(device.DeviceName, device.OutletNumber) \in DOMAIN deviceStore
       \/ Cardinality(DOMAIN deviceStore) < MaxRecords
    /\ deviceStore' = Add(deviceStore, device)
    /\ ev' = Ev("Add", 0, "", "none", "none", << <<"device", device>> >>)
    /\ UNCHANGED <<mu, goroutine, caller, maxSize, client, connected, messageCallback,
                   connectionCallback, sess, config, messageLog, thr, released>>

\* DeviceStore.Clear
DeviceStoreClear ==
    /\ deviceStore' = NewDeviceStore
    /\ ev' = Ev("ClearDevices", 0, "", "none", "none", <<>>)
    /\ UNCHANGED <<mu, goroutine, caller, maxSize, client, connected, messageCallback,
                   connectionCallback, sess, config, messageLog, thr, released>>

\* App.GetDevices: DeviceStore.GetAll
GetDevices ==
    /\ \E order \in Orders(deviceStore) :
          ev' = Ev("GetDevices", 0, "", "none", "none",
                   << <<"result", DeviceStoreGetAll(deviceStore, order)>> >>)
    /\ UNCHANGED <<mu, goroutine, caller, maxSize, client, connected, messageCallback,
                   connectionCallback, sess, config, deviceStore, messageLog,
                   thr, released>>

\* App.SearchDevices: DeviceStore.Filter
SearchDevices(searchText) ==
    /\ \E order \in Orders(deviceStore) :
          ev' = Ev("SearchDevices", 0, "", "none", "none",
                   << <<"searchText", searchText>>,
                      <<"result", DeviceStoreFilter(deviceStore, order, searchText)>> >>)
    /\ UNCHANGED <<mu, goroutine, caller, maxSize, client, connected, messageCallback,
                   connectionCallback, sess, config, deviceStore, messageLog,
                   thr, released>>

\* App.GetMessages: MessageLog.GetAll, handed to the UI
GetMessages ==
    /\ ev' = Ev("GetMessages", 0, "", "none", "none",
                << <<"result", GetAll(messageLog)>> >>)
    /\ UNCHANGED <<mu, goroutine, caller, maxSize, client, connected, messageCallback,
                   connectionCallback, sess, config, deviceStore, messageLog,
                   thr, released>>

\* ---------------------------------------------------- calls of the codec
\* ParseTopic of the status topic of the names drawn
CallParseTopic ==
    /\ ev.op = "input" /\ ev.trace[1][1] = "names"
    /\ LET device == ev.trace[1][2]
           outlet == ev.trace[1][3]
           topic == Power \o Slash \o device \o Slash \o Outlets \o Slash \o outlet
       IN  ev' = Ev("ParseTopic", 0, "", "none", "none",
                    << <<"arg", device, outlet>>, <<"result", ParseTopic(topic)>> >>)
    /\ UNCHANGED <<mu, goroutine, caller, maxSize, client, connected, messageCallback,
                   connectionCallback, sess, config, deviceStore, messageLog,
                   thr, released>>

\* ParsePayload of the text drawn
CallParsePayload ==
    /\ ev.op = "input" /\ ev.trace[1][1] = "text"
    /\ ev' = Ev("ParsePayload", 0, "", "none", "none",
                << <<"arg", ev.trace[1][2]>>,
                   <<"result", ParsePayload(ev.trace[1][2])>> >>)
    /\ UNCHANGED <<mu, goroutine, caller, maxSize, client, connected, messageCallback,
                   connectionCallback, sess, config, deviceStore, messageLog,
                   thr, released>>

\* StatusToPayload of the text drawn
CallStatusToPayload ==
    /\ ev.op = "input" /\ ev.trace[1][1] = "text"
    /\ ev' = Ev("StatusToPayload", 0, "", "none", "none",
                << <<"arg", ev.trace[1][2]>>,
                   <<"result", StatusToPayload(ev.trace[1][2])>> >>)
    /\ UNCHANGED <<mu, goroutine, caller, maxSize, client, connected, messageCallback,
                   connectionCallback, sess, config, deviceStore, messageLog,
                   thr, released>>

\* StatusToPayload of what ParsePayload returned for a text
CallStatusToPayloadOfParsed ==
    /\ ev.op = "ParsePayload"
    /\ ev' = Ev("StatusToPayload(ParsePayload)", 0, "", "none", "none",
                << ev.trace[1], ev.trace[2],
                   <<"result", StatusToPayload(ev.trace[2][2])>> >>)
    /\ UNCHANGED <<mu, goroutine, caller, maxSize, client, connected, messageCallback,
                   connectionCallback, sess, config, deviceStore, messageLog,
                   thr, released>>

\* ------------------------------------------------- the session's own steps
\* the broker accepts the connection: the connect token completes
ConnAck(s) ==
    /\ sess[s].st = "connecting"
    /\ sess' = [sess EXCEPT ![s].st = "connected", ![s].queue = Append(@, "connect")]
    /\ ev' = Ev("ConnAck", s, "", "none", "none", <<>>)
    /\ UNCHANGED <<mu, goroutine, caller, maxSize, client, connected, messageCallback,
                   connectionCallback, config, deviceStore, messageLog, thr,
                   released>>

\* the attempt fails (unreachable, refused): the connect token has an error
ConnFail(s) ==
    /\ sess[s].st = "connecting"
    /\ sess' = [sess EXCEPT ![s].st = "failed"]
    /\ ev' = Ev("ConnFail", s, "", "none", "none", <<>>)
    /\ UNCHANGED <<mu, goroutine, caller, maxSize, client, connected, messageCallback,
                   connectionCallback, config, deviceStore, messageLog, thr,
                   released>>

\* unexpected link loss: the session starts reconnecting on its own
LinkLoss(s) ==
    /\ sess[s].st = "connected"
    /\ sess[s].losses < MaxLoss
    /\ Len(sess[s].queue) < MaxPending
    /\ sess' = [sess EXCEPT ![s].st = "reconnecting", ![s].subs = {},
                            ![s].losses = @ + 1, ![s].queue = Append(@, "lost")]
    /\ ev' = Ev("LinkLoss", s, "", "none", "none", <<>>)
    /\ UNCHANGED <<mu, goroutine, caller, maxSize, client, connected, messageCallback,
                   connectionCallback, config, deviceStore, messageLog, thr,
                   released>>

\* the transport restores the link
Restore(s) ==
    /\ sess[s].st = "reconnecting"
    /\ Len(sess[s].queue) < MaxPending
    /\ sess' = [sess EXCEPT ![s].st = "connected", ![s].queue = Append(@, "reconnect")]
    /\ ev' = Ev("Restore", s, "", "none", "none", <<>>)
    /\ UNCHANGED <<mu, goroutine, caller, maxSize, client, connected, messageCallback,
                   connectionCallback, config, deviceStore, messageLog, thr,
                   released>>

\* the OnConnectHandler that Client.Connect registers
OnConnectHandler(s) ==
    /\ sess[s].queue # <<>> /\ Head(sess[s].queue) \in {"connect", "reconnect"}
    /\ connected' = TRUE
    /\ LET ss == [sess EXCEPT ![s].queue = Tail(@),
                              ![s].notified = Notified(connectionCallback, "true", @)]
           trace == StatusCallback(connectionCallback, "true")
           op == IF Head(sess[s].queue) = "connect" THEN "OnConnect" ELSE "OnReconnect"
       IN  IF sess[s].filter # ""
           THEN \E res \in SubResults, reg \in BOOLEAN :
                   /\ SubscribeCan(client, ss, res, reg)
                   /\ sess' = Subscribe(client, ss, sess[s].filter, res, reg)
                   /\ ev' = Ev(op, s, "", res, SubscribeWire(client, ss, reg), trace)
           ELSE /\ sess' = ss
                /\ ev' = Ev(op, s, "", "none", "none", trace)
    /\ UNCHANGED <<mu, goroutine, caller, maxSize, client, messageCallback,
                   connectionCallback, config, deviceStore, messageLog, thr,
                   released>>

\* the ConnectionLostHandler that Client.Connect registers
ConnectionLostHandler(s) ==
    /\ sess[s].queue # <<>> /\ Head(sess[s].queue) = "lost"
    /\ connected' = FALSE
    /\ sess' = [sess EXCEPT ![s].queue = Tail(@),
                            ![s].notified = Notified(connectionCallback, "false", @)]
    /\ ev' = Ev("ConnectionLost", s, "", "none", "none",
                StatusCallback(connectionCallback, "false"))
    /\ UNCHANGED <<mu, goroutine, caller, maxSize, client, messageCallback,
                   connectionCallback, config, deviceStore, messageLog, thr,
                   released>>

\* the message handler that Client.Subscribe registers, run for one
\* message the broker sends on a subscription of the session
MessageHandler(s, topic, payload) ==
    /\ sess[s].st = "connected"
    /\ \E f \in sess[s].subs : Matches(f, topic)
    /\ LET callback == messageCallback
           h == handleMQTTMessage(messageLog, deviceStore, topic, payload)
       IN  IF callback = "app"
           THEN /\ messageLog' = h.messages
                /\ deviceStore' = h.devices
                /\ ev' = Ev("Message", s, "", "none", "none",
                            << <<"deliver", topic, payload>>,
                               <<"cb.message", callback>> >> \o h.trace)
           ELSE /\ UNCHANGED <<messageLog, deviceStore>>
                /\ ev' = Ev("Message", s, "", "none", "none",
                            IF callback = "nil" THEN << <<"deliver", topic, payload>> >>
                            ELSE << <<"deliver", topic, payload>>,
                                    <<"cb.message", callback>> >>)
    /\ UNCHANGED <<mu, goroutine, caller, maxSize, client, connected, messageCallback,
                   connectionCallback, sess, config, thr, released>>

\* ---------------------------------------------------------- specification
\* what the user enters in the settings dialog, and whether encrypting the
\* password and writing the file succeed
SaveInput(server, port, sub, encOk, diskOk) ==
    [server |-> server, port |-> port, sub |-> sub, encOk |-> encOk, diskOk |-> diskOk]

\* settings that SaveSettings accepts; the empty filter becomes "power/#"
ValidInputs == {SaveInput("broker", 1883, "", TRUE, TRUE)}

\* App.connectMQTT, called by the auto-connect goroutine or by SaveSettings
Connecting ==
    \/ \E t \in Threads : ConnectStart(t)
    \/ \E t \in Threads : ConnectWait(t)
    \/ \E t \in Threads : ConnectSubscribe(t)

\* what the sessions do on their own: network events and handler runs
SessionSteps ==
    \/ \E s \in Sessions : ConnAck(s)
    \/ \E s \in Sessions : ConnFail(s)
    \/ \E s \in Sessions : LinkLoss(s)
    \/ \E s \in Sessions : Restore(s)
    \/ \E s \in Sessions : OnConnectHandler(s)
    \/ \E s \in Sessions : ConnectionLostHandler(s)

\* the connection manager under the callers the application has
Lifecycle(inputs) ==
    \/ Connecting
    \/ \E i \in inputs : SaveSettings(i.server, i.port, i.sub, i.encOk, i.diskOk)
    \/ Disconnect
    \/ SessionSteps

\* the messages and commands of the application
Data ==
    \/ SendCommand(<<"a">>, <<"1">>, <<"o", "n">>)
    \/ ClearLog
    \/ \E s \in Sessions, payload \in InPayloads : MessageHandler(s, InTopic, payload)

\* Spec: the connection manager under the two concurrent callers of the
\* application, the auto-connect goroutine of Startup and the UI's calls
Next ==
    \/ \E cfg \in LoadedConfigs : Startup(cfg)
    \/ Lifecycle(ValidInputs)

Spec == Init /\ [][Next]_vars

\* SpecData: a first run (no configuration file, so no auto-connect): the
\* UI's calls, the session's events, the messages and the commands
NextData ==
    \/ Startup(DefaultConfig)
    \/ Lifecycle(ValidInputs)
    \/ Data

SpecData == Init /\ [][NextData]_vars

\* SpecMessages: the auto-connect of a stored configuration, after which the
\* broker delivers messages on the subscription power/#: status messages,
\* a topic without its "outlets" segment, the echo of a command
StatusTopic == InTopic
ShortTopic == Power \o Slash \o <<"a">> \o Slash \o <<"1">>
EchoTopic == MakeCommandTopic(<<"a">>, <<"1">>)
Topics == {StatusTopic, ShortTopic, EchoTopic}
Payloads == {<<"1">>, <<"0">>, <<" ", "0">>}

NextMessages ==
    \/ Startup(StoredConfig(TRUE))
    \/ Connecting
    \/ \E s \in Sessions : ConnAck(s)
    \/ \E s \in Sessions : OnConnectHandler(s)
    \/ \E s \in Sessions, topic \in Topics, payload \in Payloads :
          MessageHandler(s, topic, payload)

SpecMessages == Init /\ [][NextMessages]_vars

\* SpecStatus: as SpecMessages, with status messages only, of three
\* identities: (a, 1), (a:b, c) and (a, b:c)
ColonDeviceTopic ==
    Power \o Slash \o <<"a", ":", "b">> \o Slash \o Outlets \o Slash \o <<"c">>
ColonOutletTopic ==
    Power \o Slash \o <<"a">> \o Slash \o Outlets \o Slash \o <<"b", ":", "c">>
StatusTopics == {StatusTopic, ColonDeviceTopic, ColonOutletTopic}
StatusPayloads == {<<"1">>, <<"0">>}

NextStatus ==
    \/ Startup(StoredConfig(TRUE))
    \/ Connecting
    \/ \E s \in Sessions : ConnAck(s)
    \/ \E s \in Sessions : OnConnectHandler(s)
    \/ \E s \in Sessions, topic \in StatusTopics, payload \in StatusPayloads :
          MessageHandler(s, topic, payload)

SpecStatus == Init /\ [][NextStatus]_vars

\* SpecCommands: the auto-connect of a stored configuration, during and
\* after which the user sends commands with any text as the desired state
States == {<<"o", "n">>, <<"O", "F", "F">>, <<" ", "O", "n", " ">>,
           <<"t", "o", "g", "g", "l", "e">>, <<>>}

NextCommands ==
    \/ Startup(StoredConfig(TRUE))
    \/ Connecting
    \/ SessionSteps
    \/ \E state \in States : SendCommand(<<"a">>, <<"1">>, state)

SpecCommands == Init /\ [][NextCommands]_vars

\* SpecSettings: the user changes the settings, to another filter or to an
\* empty server address, while or after a stored configuration (whose
\* password may not decrypt) auto-connects and status messages arrive
SettingsInputs == {SaveInput("broker", 1883, "#", TRUE, TRUE),
                   SaveInput("", 1883, "", TRUE, TRUE)}

NextSettings ==
    \/ \E pwok \in BOOLEAN : Startup(StoredConfig(pwok))
    \/ Connecting
    \/ \E i \in SettingsInputs : SaveSettings(i.server, i.port, i.sub, i.encOk, i.diskOk)
    \/ \E s \in Sessions : ConnAck(s)
    \/ \E s \in Sessions : ConnFail(s)
    \/ \E s \in Sessions : OnConnectHandler(s)
    \/ \E s \in Sessions : MessageHandler(s, StatusTopic, <<"1">>)

SpecSettings == Init /\ [][NextSettings]_vars

\* SpecLog: a message log constructed with any capacity argument, under any
\* sequence of its methods
CapacityArgs == -1..MaxSize
Directions == {"Send", "Recv"}

InitLog ==
    /\ client = 0
    /\ connected = FALSE
    /\ messageCallback = "nil"
    /\ connectionCallback = "nil"
    /\ sess = [s \in Sessions |-> NoSession]
    /\ config = DefaultConfig
    /\ deviceStore = NewDeviceStore
    /\ messageLog = <<>>
    /\ thr = [t \in Threads |-> [pc |-> "off", s |-> 0]]
    /\ released = FALSE
    /\ caller = NoCaller
    /\ mu = NoLocks
    /\ goroutine = NoGoroutines
    /\ \E n \in CapacityArgs :
          /\ maxSize = NewMessageLog(n)
          /\ ev = Ev("NewMessageLog", 0, "", "none", "none", << <<"maxSize", n>> >>)

NextLog ==
    \/ \E direction \in Directions, payload \in StatusPayloads :
          MessageLogAdd(direction, StatusTopic, payload)
    \/ MessageLogClear
    \/ MessageLogGetAll
    \/ MessageLogCount

SpecLog == InitLog /\ [][NextLog]_vars

\* SpecStore: the device store of a new application under any sequence of
\* its methods, with names that differ in case, in length and in a digit
DeviceNames == {<<"a">>, <<"B">>, <<"a", "b">>}
OutletNumbers == {<<"1", "0">>, <<"2">>}
Statuses == {<<"O", "N">>, <<"O", "F", "F">>}
SearchTexts == {<<>>, <<"A">>, <<"b">>, <<"1">>, <<"o", "N">>, <<"x">>}

NextStore ==
    \/ \E deviceName \in DeviceNames, outletNumber \in OutletNumbers,
          status \in Statuses :
          DeviceStoreAdd([DeviceName |-> deviceName, OutletNumber |-> outletNumber,
                          Status |-> status])
    \/ DeviceStoreClear
    \/ GetDevices
    \/ \E searchText \in SearchTexts : SearchDevices(searchText)

SpecStore == Init /\ [][NextStore]_vars

\* SpecCodec: the codec's functions applied to names and texts drawn from
\* all strings, up to a length, of characters the functions tell apart
Names ==
    UNION {[1..n -> {"a", "S", ":", " ", "/"}] : n \in 0..MaxNameLen}
Texts ==
    UNION {[1..n -> {"0", "1", " ", "O", "o", "N", "n", "F", "f"}] :
              n \in 0..MaxTextLen}

InitCodec ==
    /\ client = 0
    /\ connected = FALSE
    /\ messageCallback = "nil"
    /\ connectionCallback = "nil"
    /\ sess = [s \in Sessions |-> NoSession]
    /\ config = DefaultConfig
    /\ deviceStore = NewDeviceStore
    /\ messageLog = <<>>
    /\ maxSize = NewMessageLog(MaxSize)
    /\ thr = [t \in Threads |-> [pc |-> "off", s |-> 0]]
    /\ released = FALSE
    /\ caller = NoCaller
    /\ mu = NoLocks
    /\ goroutine = NoGoroutines
    /\ \/ \E device \in Names, outlet \in Names :
             ev = Ev("input", 0, "", "none", "none", << <<"names", device, outlet>> >>)
       \/ \E text \in Texts :
             ev = Ev("input", 0, "", "none", "none", << <<"text", text>> >>)

NextCodec ==
    \/ CallParseTopic
    \/ CallParsePayload
    \/ CallStatusToPayload
    \/ CallStatusToPayloadOfParsed

SpecCodec == InitCodec /\ [][NextCodec]_vars

\* SpecCallbacks: the auto-connect of a stored configuration, during which
\* the callbacks are registered again at any moment: before or after connect
\* and subscribe, between two messages, between two status changes
Callbacks == {"nil", "app", "obs"}

NextCallbacks ==
    \/ Startup(StoredConfig(TRUE))
    \/ Connecting
    \/ SessionSteps
    \/ \E callback \in Callbacks : SetMessageCallback(callback)
    \/ \E callback \in Callbacks : SetConnectionCallback(callback)
    \/ \E s \in Sessions, payload \in InPayloads : MessageHandler(s, InTopic, payload)

SpecCallbacks == Init /\ [][NextCallbacks]_vars

\* SpecFrame: every operation of the application on a first run: settings
\* changes that connect, commands, ClearLog, Disconnect, the session's link
\* losses and restores, messages with a topic that ParseTopic accepts and
\* with one it rejects, and the UI's reads
NextFrame ==
    \/ Startup(DefaultConfig)
    \/ Connecting
    \/ \E i \in ValidInputs : SaveSettings(i.server, i.port, i.sub, i.encOk, i.diskOk)
    \/ Disconnect
    \/ \E s \in Sessions : ConnAck(s)
    \/ \E s \in Sessions : LinkLoss(s)
    \/ \E s \in Sessions : Restore(s)
    \/ \E s \in Sessions : OnConnectHandler(s)
    \/ \E s \in Sessions : ConnectionLostHandler(s)
    \/ SendCommand(<<"a">>, <<"1">>, <<"o", "n">>)
    \/ ClearLog
    \/ \E s \in Sessions, topic \in {StatusTopic, ShortTopic} :
          MessageHandler(s, topic, <<"1">>)
    \/ GetDevices
    \/ SearchDevices(<<"a">>)
    \/ GetMessages

SpecFrame == Init /\ [][NextFrame]_vars

\* SpecSaveErrors: the auto-connect of a stored configuration and its
\* messages, while the user saves settings that SaveSettings refuses (a port
\* below or above the range, a password that cannot be encrypted, a file
\* that cannot be written) and settings with the greatest port
SaveErrorInputs == {SaveInput("broker", 0, "#", TRUE, TRUE),
                    SaveInput("broker", 65536, "#", TRUE, TRUE),
                    SaveInput("broker", 1883, "#", FALSE, TRUE),
                    SaveInput("broker", 1883, "#", TRUE, FALSE),
                    SaveInput("broker", 65535, "#", TRUE, TRUE)}

NextSaveErrors ==
    \/ Startup(StoredConfig(TRUE))
    \/ Connecting
    \/ \E i \in SaveErrorInputs : SaveSettings(i.server, i.port, i.sub, i.encOk, i.diskOk)
    \/ \E s \in Sessions : ConnAck(s)
    \/ \E s \in Sessions : OnConnectHandler(s)
    \/ \E s \in Sessions : MessageHandler(s, StatusTopic, <<"1">>)

SpecSaveErrors == Init /\ [][NextSaveErrors]_vars

\* SpecWaits: the auto-connect of a stored configuration and the UI's
\* Disconnect and commands, under a session that answers or not, as it likes.  A goroutine that is in a call keeps running, and the wait
\* of a call ends when its token completes or its timeout expires: the
\* steps of a caller are weakly fair, the steps of the sessions are not.
NextWaits ==
    \/ Startup(StoredConfig(TRUE))
    \/ Connecting
    \/ Disconnect
    \/ SessionSteps
    \/ SendCommand(<<"a">>, <<"1">>, <<"o", "n">>)

SpecWaits ==
    /\ Init /\ [][NextWaits]_vars
    /\ \A t \in Threads : WF_vars(ConnectWait(t)) /\ WF_vars(ConnectSubscribe(t))

\* ------------------------------------------- the methods, step by step
\* sync.RWMutex: Lock returns when nobody holds the mutex
LockCan(m) == ~m.w /\ m.r = 0

\* a read lock that does not wait for the writer
RLockCanAlways(m) == TRUE

\* sync.RWMutex: RLock returns when no writer holds the mutex
RLockCan(m) == ~m.w

Step(op, trace) == Ev(op, 0, "", "none", "none", trace)

\* the mutations of the writer stream: the appends of the inbound handler
\* and of SendCommand, the upsert of the handler, the two clears
StatusMessage == [Direction |-> "Recv", Topic |-> StatusTopic, Payload |-> <<"1">>]
CommandMessage ==
    [Direction |-> "Send", Topic |-> MakeCommandTopic(<<"a">>, <<"1">>),
     Payload |-> <<"1">>]
Upserts == {[DeviceName |-> <<"a">>, OutletNumber |-> <<"1">>, Status |-> st] :
               st \in {<<"O", "N">>, <<"O", "F", "F">>}}
Mutations ==
    {[obj |-> "log", op |-> "AddMessage", arg |-> m] :
        m \in {StatusMessage, CommandMessage}}
    \cup {[obj |-> "log", op |-> "Clear", arg |-> <<>>]}
    \cup {[obj |-> "store", op |-> "Add", arg |-> d] : d \in Upserts}
    \cup {[obj |-> "store", op |-> "Clear", arg |-> <<>>]}

\* the reads: MessageLog.GetAll and Count, DeviceStore.GetAll and Filter
Reads == {[obj |-> "log", op |-> "MessageLog.GetAll", arg |-> <<>>],
          [obj |-> "log", op |-> "MessageLog.Count", arg |-> <<>>],
          [obj |-> "store", op |-> "DeviceStore.GetAll", arg |-> <<>>],
          [obj |-> "store", op |-> "DeviceStore.Filter", arg |-> <<"o", "N">>]}

\* the zero value of MQTTMessage, which make() puts in a new slice
ZeroMessage == [Direction |-> "", Topic |-> <<>>, Payload |-> <<>>]

\* mu.Lock() of AddMessage, Add or Clear
WriterLock(m) ==
    /\ goroutine["w"].pc = "out"
    /\ LockCan(mu[m.obj])
    /\ mu' = [mu EXCEPT ![m.obj].w = TRUE]
    /\ goroutine' = [goroutine EXCEPT !["w"] = [pc |-> "locked", op |-> m.op, loc |-> m]]
    /\ ev' = Step("Lock", <<>>)
    /\ UNCHANGED <<caller, maxSize, client, connected, messageCallback,
                   connectionCallback, sess, config, deviceStore, messageLog,
                   thr, released>>

\* the assignment of the mutation: AddMessage puts the message in front,
\* Add sets the map entry, Clear replaces the slice or the map
WriterAssign ==
    /\ goroutine["w"].pc = "locked"
    /\ LET m == goroutine["w"].loc
       IN  /\ messageLog' = IF m.obj # "log" THEN messageLog
                            ELSE IF m.op = "AddMessage" THEN <<m.arg>> \o messageLog
                            ELSE <<>>
           /\ deviceStore' = IF m.obj # "store" THEN deviceStore
                             ELSE IF m.op = "Add" THEN Add(deviceStore, m.arg)
                             ELSE NewDeviceStore
    /\ goroutine' = [goroutine EXCEPT !["w"].pc = "assigned"]
    /\ ev' = Step("assign", <<>>)
    /\ UNCHANGED <<mu, caller, maxSize, client, connected, messageCallback,
                   connectionCallback, sess, config, thr, released>>

\* the end of the mutation: the trim of AddMessage, then the deferred Unlock
WriterUnlock ==
    /\ goroutine["w"].pc = "assigned"
    /\ LET m == goroutine["w"].loc
       IN  /\ messageLog' = IF m.op = "AddMessage" /\ Len(messageLog) > maxSize
                            THEN SubSeq(messageLog, 1, maxSize)
                            ELSE messageLog
           /\ mu' = [mu EXCEPT ![m.obj].w = FALSE]
           /\ ev' = Step(m.op, <<>>)
    /\ goroutine' = [goroutine EXCEPT !["w"] = Outside]
    /\ UNCHANGED <<caller, maxSize, client, connected, messageCallback,
                   connectionCallback, sess, config, deviceStore, thr, released>>

\* mu.RLock() of a read
ReaderRLock(r, read) ==
    /\ goroutine[r].pc = "out"
    /\ RLockCan(mu[read.obj])
    /\ mu' = [mu EXCEPT ![read.obj].r = @ + 1]
    /\ goroutine' = [goroutine EXCEPT ![r] = [pc |-> "rlocked", op |-> read.op,
                                             loc |-> read]]
    /\ ev' = Step("RLock", <<>>)
    /\ UNCHANGED <<caller, maxSize, client, connected, messageCallback,
                   connectionCallback, sess, config, deviceStore, messageLog,
                   thr, released>>

\* the first statement of a read: GetAll of the log makes a slice of
\* len(l.messages) zero values; Count reads the length; GetAll and Filter of
\* the store visit the map in some order, select and sort
ReaderRead(r) ==
    /\ goroutine[r].pc = "rlocked"
    /\ LET read == goroutine[r].loc
       IN  \E order \in Orders(deviceStore) :
              goroutine' = [goroutine EXCEPT
                 ![r].pc = IF read.op = "MessageLog.GetAll" THEN "made" ELSE "read",
                 ![r].loc = CASE read.op = "MessageLog.GetAll" ->
                                    [i \in 1..Len(messageLog) |-> ZeroMessage]
                              [] read.op = "MessageLog.Count" -> Len(messageLog)
                              [] read.op = "DeviceStore.GetAll" ->
                                    DeviceStoreGetAll(deviceStore, order)
                              [] OTHER ->
                                    DeviceStoreFilter(deviceStore, order, read.arg)]
    /\ ev' = Step("read", <<>>)
    /\ UNCHANGED <<mu, caller, maxSize, client, connected, messageCallback,
                   connectionCallback, sess, config, deviceStore, messageLog,
                   thr, released>>

\* copy(result, l.messages) of MessageLog.GetAll: as many elements as the
\* shorter of the two has
ReaderCopy(r) ==
    /\ goroutine[r].pc = "made"
    /\ goroutine' = [goroutine EXCEPT
          ![r].pc = "read",
          ![r].loc = [i \in 1..Len(goroutine[r].loc) |->
                         IF i <= Len(messageLog) THEN messageLog[i]
                         ELSE goroutine[r].loc[i]]]
    /\ ev' = Step("copy", <<>>)
    /\ UNCHANGED <<mu, caller, maxSize, client, connected, messageCallback,
                   connectionCallback, sess, config, deviceStore, messageLog,
                   thr, released>>

\* the deferred RUnlock of a read, and its return
ReaderRUnlock(r) ==
    /\ goroutine[r].pc = "read"
    /\ LET obj == IF goroutine[r].op \in {"MessageLog.GetAll", "MessageLog.Count"}
                  THEN "log" ELSE "store"
       IN  mu' = [mu EXCEPT ![obj].r = @ - 1]
    /\ goroutine' = [goroutine EXCEPT ![r] = Outside]
    /\ ev' = Step(goroutine[r].op, << <<"result", goroutine[r].loc>> >>)
    /\ UNCHANGED <<caller, maxSize, client, connected, messageCallback,
                   connectionCallback, sess, config, deviceStore, messageLog,
                   thr, released>>

\* SpecAtomic: one writer goroutine and two reader goroutines inside the
\* methods of the log and of the store, interleaved statement by statement
NextAtomic ==
    \/ \E m \in Mutations : WriterLock(m)
    \/ WriterAssign
    \/ WriterUnlock
    \/ \E r \in Readers, read \in Reads : ReaderRLock(r, read)
    \/ \E r \in Readers : ReaderRead(r)
    \/ \E r \in Readers : ReaderCopy(r)
    \/ \E r \in Readers : ReaderRUnlock(r)

SpecAtomic == Init /\ [][NextAtomic]_vars

\* ------------------------------------- the client's methods, step by step
\* The statements of a method that matter to the lock, in program order:
\* Lock, RLock, Unlock, RUnlock of c.mu; an assignment to c.connected or to
\* c.messageCallback; "read" of a field; "wait" for a blocking wait on the
\* session (WaitTimeout, Disconnect(250)); "callback" where the callback is
\* called and "return" where it returns, the statements of its body between.

\* Client.IsConnected
IsConnectedSteps == <<"RLock", "read", "RUnlock">>

\* Client.Publish, for a flag that is set
PublishSteps == <<"RLock", "read", "RUnlock", "wait">>

\* Client.Subscribe
SubscribeSteps == <<"wait">>

\* Client.SetMessageCallback
SetMessageCallbackSteps == <<"Lock", "messageCallback = obs", "Unlock">>

\* Client.Disconnect, for a session that is connected
DisconnectSteps == <<"wait", "Lock", "connected = false", "Unlock">>

\* Client.Connect from its wait on
ConnectSteps == <<"wait", "Lock", "connected = true", "Unlock">>

\* what the body of a callback may call on the client
CallbackBodies == {<<>>, IsConnectedSteps, PublishSteps, SubscribeSteps,
                   SetMessageCallbackSteps, DisconnectSteps}

\* an on-connect handler that unlocks with defer, when it returns
OnConnectHandlerStepsDeferUnlock(body) ==
    <<"Lock", "connected = true", "read", "callback">> \o body
       \o <<"return">> \o SubscribeSteps \o <<"Unlock">>

\* the OnConnectHandler of Client.Connect, for a filter that is not empty
OnConnectHandlerSteps(body) ==
    <<"Lock", "connected = true", "read", "Unlock", "callback">> \o body
       \o <<"return">> \o SubscribeSteps

\* the ConnectionLostHandler of Client.Connect
ConnectionLostHandlerSteps(body) ==
    <<"Lock", "connected = false", "read", "Unlock", "callback">> \o body
       \o <<"return">>

\* the message handler of Client.Subscribe
MessageHandlerSteps(body) ==
    <<"RLock", "read", "RUnlock", "callback">> \o body \o <<"return">>

\* the handlers the session runs, by goroutine, and the foreground calls
HandlerPrograms(g) ==
    IF g = "h"
    THEN {[op |-> "OnConnectHandler", todo |-> OnConnectHandlerSteps(body)] :
             body \in CallbackBodies}
         \cup {[op |-> "ConnectionLostHandler",
                todo |-> ConnectionLostHandlerSteps(body)] : body \in CallbackBodies}
    ELSE {[op |-> "MessageHandler", todo |-> MessageHandlerSteps(body)] :
             body \in CallbackBodies}

ForegroundPrograms ==
    {[op |-> "IsConnected", todo |-> IsConnectedSteps],
     [op |-> "Publish", todo |-> PublishSteps],
     [op |-> "Subscribe", todo |-> SubscribeSteps],
     [op |-> "SetMessageCallback", todo |-> SetMessageCallbackSteps],
     [op |-> "Disconnect", todo |-> DisconnectSteps],
     [op |-> "Connect", todo |-> ConnectSteps]}

\* a goroutine enters a handler or a method
Enter(g, program) ==
    /\ goroutine[g].pc = "out"
    /\ goroutine' = [goroutine EXCEPT ![g] =
          [pc |-> "in", op |-> program.op,
           loc |-> [todo |-> program.todo, holds |-> "", incb |-> FALSE]]]
    /\ ev' = Step(program.op, <<>>)
    /\ UNCHANGED <<mu, caller, maxSize, client, connected, messageCallback,
                   connectionCallback, sess, config, deviceStore, messageLog,
                   thr, released>>

\* whether the next statement of goroutine g can run: a Lock and an RLock
\* block while the mutex is held against them
CanStep(g) ==
    LET stmt == Head(goroutine[g].loc.todo)
    IN  /\ stmt = "Lock" => LockCan(mu.client)
        /\ stmt = "RLock" => RLockCan(mu.client)

\* goroutine g runs its next statement
Run(g) ==
    /\ goroutine[g].pc = "in"
    /\ CanStep(g)
    /\ LET stmt == Head(goroutine[g].loc.todo)
           rest == Tail(goroutine[g].loc.todo)
       IN  /\ mu' = [mu EXCEPT
                 !.client.w = IF stmt = "Lock" THEN TRUE
                              ELSE IF stmt = "Unlock" THEN FALSE ELSE @,
                 !.client.r = IF stmt = "RLock" THEN @ + 1
                              ELSE IF stmt = "RUnlock" THEN @ - 1 ELSE @]
           /\ connected' = IF stmt = "connected = true" THEN TRUE
                           ELSE IF stmt = "connected = false" THEN FALSE
                           ELSE connected
           /\ messageCallback' = IF stmt = "messageCallback = obs" THEN "obs"
                                 ELSE messageCallback
           /\ goroutine' = [goroutine EXCEPT ![g] =
                 IF rest = <<>> THEN Outside
                 ELSE [@ EXCEPT !.loc.todo = rest,
                                !.loc.holds = IF stmt = "Lock" THEN "w"
                                              ELSE IF stmt = "RLock" THEN "r"
                                              ELSE IF stmt \in {"Unlock", "RUnlock"} THEN ""
                                              ELSE @,
                                !.loc.incb = IF stmt = "callback" THEN TRUE
                                             ELSE IF stmt = "return" THEN FALSE
                                             ELSE @]]
           /\ ev' = Step(goroutine[g].op, <<stmt>>)
    /\ UNCHANGED <<caller, maxSize, client, connectionCallback, sess, config,
                   deviceStore, messageLog, thr, released>>

\* SpecLocks: the session runs its handlers, whose callbacks call the client,
\* while a foreground goroutine calls the client's methods
NextLocks ==
    \/ \E g \in {"h", "m"} : \E program \in HandlerPrograms(g) : Enter(g, program)
    \/ \E program \in ForegroundPrograms : Enter("f", program)
    \/ \E g \in ClientGoroutines : Run(g)

SpecLocks == Init /\ [][NextLocks]_vars

\* ------------------------------------------------------------------ claims
InTrace(x) == \E i \in 1..Len(ev.trace) : ev.trace[i] = x

\* C1: for a session whose connect and subscribe to its filter F succeeded:
\* when the handler of a restore is due, the Disconnected notification of
\* the loss has been given; the handler then fires Connected and, the link
\* still being up, issues a subscribe for F to the restored session in the
\* same step, that is before any message of the restored link is delivered.
C1_ResubscribeOnRestore ==
    \A s \in Sessions :
        (sess[s].ret = "ok" /\ sess[s].subok) =>
            /\ (sess[s].queue # <<>> /\ Head(sess[s].queue) = "reconnect")
                  => sess[s].notified = "false"
            /\ (ev.op = "OnReconnect" /\ ev.s = s /\ sess[s].st = "connected")
                  => /\ InTrace(<<"cb.status", connectionCallback, "true">>)
                     /\ sess[s].notified = "true"
                     /\ ev.sub # "none"
                     /\ ev.wire \in {"issued", "registered"}
                     /\ client = s

\* C2: a SendCommand (so a publish) made while the connection state is not
\* Connected returns an error at once, hands nothing to the session and
\* leaves the message log as it was; and no failing publish, whatever the
\* failure, appends to the log.
C2_PublishWhenDisconnected ==
    [][ev'.op = "SendCommand" =>
          /\ ~connected =>
                /\ ev'.res \in {"client not initialized", "not connected to broker"}
                /\ ev'.wire = "none"
          /\ ev'.res # "ok" => messageLog' = messageLog]_vars

\* C2 witness: a command was refused for the flag alone: the session of the
\* client is connected and would have taken the publish
C2_Witness ==
    /\ ev.op = "SendCommand" /\ ev.res = "not connected to broker"
    /\ ~connected /\ client # 0 /\ sess[client].st = "connected"
    /\ messageLog # <<>>

\* C3: Disconnect can be called whatever the state of the client and of its
\* session; when it returns the flag that IsConnected reports is false, and
\* a second Disconnect right after it would change neither the flag nor any
\* session.
C3_DisconnectIdempotent ==
    [][ev'.op = "Disconnect" =>
          /\ connected' = FALSE
          /\ DisconnectFlag(client', sess', connected') = connected'
          /\ DisconnectSession(client', sess') = sess']_vars

\* C3 witness: Disconnect has returned while the flag was set and the
\* client's session was still in its first connection attempt
C3_Witness ==
    /\ ev.op = "Disconnect" /\ ~connected
    /\ client # 0 /\ sess[client].st = "connecting"
    /\ \E s \in Sessions : sess[s].st = "connected" /\ sess[s].notified = "true"

\* C4: once Connect has returned "connection timeout" for a session, and
\* until Connect is called again, the state is Disconnected and the timed-out
\* attempt changes nothing: no Connected callback, no subscription.
C4_TimeoutLeavesDisconnected ==
    \A s \in Sessions :
        (sess[s].ret = "connection timeout" /\ client = s) =>
            /\ ~connected
            /\ sess[s].notified = "none"
            /\ sess[s].subs = {}

\* C5: after Disconnect has returned, while no Connect call is made or in
\* progress, the state stays Disconnected and no status or message callback
\* runs.
C5_SilentAfterDisconnect ==
    (released /\ \A t \in Threads : thr[t].pc \notin {"wait", "sub"}) =>
        /\ ~connected
        /\ ev.op \notin {"OnConnect", "OnReconnect", "ConnectionLost", "Message"}

\* C6: the flag changes value only in the on-connect handler, in the
\* connection-lost handler or in a Disconnect (SaveSettings makes one).
C6_FlagWrittenByHandlersOnly ==
    [][connected' # connected =>
          ev'.op \in {"OnConnect", "OnReconnect", "ConnectionLost",
                      "Disconnect", "SaveSettings"}]_vars

\* C7: at most one session can still deliver messages or status callbacks.
C7_SingleLiveSession ==
    Cardinality({s \in Sessions :
                    sess[s].st \in {"connecting", "connected", "reconnecting"}}) <= 1

\* C8: a Subscribe made when the client has no session, when the Connect for
\* its session returned an error (failure or timeout), or after a Disconnect,
\* returns an error and registers no subscription.
C8_SubscribeNeedsConnect ==
    (/\ ev.sub # "none"
     /\ \/ client = 0
        \/ sess[client].ret \in {"connection timeout", "connection failed"}
        \/ released)
        => (ev.sub # "ok" /\ ev.wire # "registered")

\* C9: the error of every failing Subscribe is what the operation that made
\* the call returns to its caller.
C9_SubscribeErrorsReported ==
    ev.sub \notin {"none", "ok"} => ev.res = ev.sub

\* the callbacks of kind k ("cb.message", "cb.status") the last step called
Calls(k) == {i \in 1..Len(ev.trace) : ev.trace[i][1] = k}

\* C10: a registration replaces the callback of its kind; every message a
\* session delivers makes exactly one call, to the message callback
\* registered last (none when that is nil), and every status change a
\* session signals makes exactly one call, with the new status, to the
\* status callback registered last.
C10_LastRegistrationWins ==
    /\ ev.op = "SetMessageCallback" => messageCallback = ev.res
    /\ ev.op = "SetConnectionCallback" => connectionCallback = ev.res
    /\ ev.op = "Message" =>
          /\ Cardinality(Calls("cb.message")) = (IF messageCallback = "nil" THEN 0 ELSE 1)
          /\ \A i \in Calls("cb.message") : ev.trace[i][2] = messageCallback
    /\ ev.op \in {"OnConnect", "OnReconnect", "ConnectionLost"} =>
          /\ Cardinality(Calls("cb.status")) = (IF connectionCallback = "nil" THEN 0 ELSE 1)
          /\ \A i \in Calls("cb.status") :
                /\ ev.trace[i][2] = connectionCallback
                /\ ev.trace[i][3] = (IF ev.op = "ConnectionLost" THEN "false" ELSE "true")

\* C10 witness: a message is delivered to a callback that replaced the
\* application's, on a session whose connect and subscribe had succeeded
C10_Witness ==
    /\ ev.op = "Message" /\ messageCallback = "obs"
    /\ InTrace(<<"cb.message", "obs">>)
    /\ sess[ev.s].ret = "ok" /\ sess[ev.s].subok
    /\ messageLog = <<>>

\* the message the last step's handler was run for: <<"deliver", topic, payload>>
Delivered(e) == e.trace[1]

\* C11: a message delivered to the application puts one Received entry with
\* the topic and the payload as they arrived at the front of the log (the
\* oldest entry leaves a full log); when ParseTopic rejects the topic the
\* store is not touched, nothing is reported but the log entry, and the
\* handler returns normally.
C11_InboundAlwaysLogged ==
    [][(ev'.op = "Message" /\ messageCallback = "app") =>
          LET topic == Delivered(ev')[2]
              payload == Delivered(ev')[3]
              n == IF Len(messageLog) < MaxSize THEN Len(messageLog) + 1 ELSE MaxSize
          IN  /\ Len(messageLog') = n
              /\ messageLog'[1] = [Direction |-> "Recv", Topic |-> topic,
                                   Payload |-> payload]
              /\ \A i \in 2..n : messageLog'[i] = messageLog[i - 1]
              /\ Cardinality({i \in 1..Len(ev'.trace) :
                                 ev'.trace[i] = <<"log.add", "Recv">>}) = 1
              /\ ~ParseTopic(topic).ok =>
                    /\ deviceStore' = deviceStore
                    /\ ev'.res = ""
                    /\ \A i \in 1..Len(ev'.trace) :
                          ev'.trace[i][1] \notin {"store.add", "error"}
                          /\ ev'.trace[i] # <<"emit", "device:update">>]_vars

\* C11 witness: the topic without "outlets" has been delivered while the
\* store held a record: the log starts with it, the record is still there
C11_Witness ==
    /\ ev.op = "Message"
    /\ Delivered(ev) = <<"deliver", ShortTopic, <<"1">>>>
    /\ messageLog[1].Topic = ShortTopic /\ messageLog[1].Payload = <<"1">>
    /\ Len(messageLog) = MaxSize
    /\ DOMAIN deviceStore # {}

\* a status topic: exactly power/<device>/outlets/<outlet>, nothing empty
IsStatusTopic(topic) ==
    LET parts == Split(topic)
    IN  /\ Len(parts) = 4
        /\ parts[1] = Power /\ parts[3] = Outlets
        /\ parts[2] # <<>> /\ parts[4] # <<>>

\* C12: the record of an identity holds ParsePayload of the payload of the
\* last status message delivered for it: for every status message in the
\* log with no later status message of the same identity, the store has the
\* identity's record with that status.
C12_LastWriteWins ==
    \A i \in 1..Len(messageLog) :
        LET m == messageLog[i]
            id == <<Split(m.Topic)[2], Split(m.Topic)[4]>>
        IN  (/\ m.Direction = "Recv"
             /\ IsStatusTopic(m.Topic)
             /\ \A j \in 1..(i - 1) :
                   ~(/\ messageLog[j].Direction = "Recv"
                     /\ IsStatusTopic(messageLog[j].Topic)
                     /\ <<Split(messageLog[j].Topic)[2],
                          Split(messageLog[j].Topic)[4]>> = id))
            => /\ makeKey(id[1], id[2]) \in DOMAIN deviceStore
               /\ deviceStore[makeKey(id[1], id[2])].Status = ParsePayload(m.Payload)

\* where the last step made the call x (0: it did not)
Pos(x) ==
    IF InTrace(x) THEN CHOOSE i \in 1..Len(ev.trace) : ev.trace[i] = x ELSE 0

\* C13: for a delivered message whose topic ParseTopic accepts, the handler
\* first upserts into the store, then appends to the log, then notifies the
\* UI of the log entry and of the record.
C13_StoreBeforeLog ==
    (/\ ev.op = "Message"
     /\ InTrace(<<"cb.message", "app">>)
     /\ ParseTopic(Delivered(ev)[2]).ok)
        => /\ 0 < Pos(<<"store.add">>)
           /\ Pos(<<"store.add">>) < Pos(<<"log.add", "Recv">>)
           /\ Pos(<<"log.add", "Recv">>) < Pos(<<"emit", "message:new">>)
           /\ Pos(<<"log.add", "Recv">>) < Pos(<<"emit", "device:update">>)

\* C14: SendCommand(device, outlet, state) publishes nothing but
\* StatusToPayload(state) on power/<device>/outlets/<outlet>/set; when the
\* publish returned nil it puts one Sent entry with that topic and payload
\* at the front of the log and then notifies the UI; when the publish
\* returned an error it returns an error and leaves the log as it was.
C14_SendCommandSteps ==
    [][ev'.op = "SendCommand" =>
          LET call == ev'.trace[1]
              topic == Power \o Slash \o call[2] \o Slash \o Outlets \o Slash
                             \o call[3] \o Slash \o SetSuffix
              payload == StatusToPayload(call[4])
              publish == <<"publish", topic, payload>>
              n == IF Len(messageLog) < MaxSize THEN Len(messageLog) + 1 ELSE MaxSize
          IN  /\ \A i \in 2..Len(ev'.trace) :
                    ev'.trace[i][1] = "publish" => (i = 2 /\ ev'.trace[i] = publish)
              /\ (ev'.wire # "none") = (Len(ev'.trace) >= 2 /\ ev'.trace[2] = publish)
              /\ ev'.res = "ok" =>
                    /\ ev'.wire # "none"
                    /\ ev'.trace = <<call, publish, <<"log.add", "Send">>,
                                     <<"emit", "message:new">> >>
                    /\ Len(messageLog') = n
                    /\ messageLog'[1] = [Direction |-> "Send", Topic |-> topic,
                                         Payload |-> payload]
                    /\ \A i \in 2..n : messageLog'[i] = messageLog[i - 1]
              /\ ev'.res # "ok" =>
                    /\ messageLog' = messageLog
                    /\ \A i \in 1..Len(ev'.trace) :
                          ev'.trace[i][1] \notin {"log.add", "emit"}]_vars

\* C14 witness: a command with the state " On " was published and logged
\* with the payload "1" while the log was full
C14_Witness ==
    /\ ev.op = "SendCommand" /\ ev.res = "ok" /\ ev.wire = "handed"
    /\ ev.trace[1] = <<"SendCommand", <<"a">>, <<"1">>, <<" ", "O", "n", " ">>>>
    /\ messageLog[1] = [Direction |-> "Send", Topic |-> EchoTopic, Payload |-> <<"1">>]
    /\ Len(messageLog) = MaxSize

\* C15: every payload SendCommand publishes is "0" or "1".
C15_CommandPayloadIsBit ==
    \A i \in 1..Len(ev.trace) :
        (ev.op = "SendCommand" /\ ev.trace[i][1] = "publish")
            => ev.trace[i][3] \in {<<"0">>, <<"1">>}

\* the steps of the UI's call, in the order the thread can take them
UiOrder == {<<"new", "idle">>, <<"idle", "connect">>, <<"connect", "wait">>,
            <<"connect", "idle">>, <<"wait", "sub">>, <<"wait", "idle">>,
            <<"sub", "idle">>}

C17_NoStaleRecords ==
    (/\ ev.op = "Message"
     /\ InTrace(<<"store.add">>)
     /\ thr["ui"].s # 0
     /\ thr["ui"].pc \in {"wait", "sub", "idle"})
        => \/ ev.s >= thr["ui"].s
           \/ sess[ev.s].filter = sess[thr["ui"].s].filter

\* C18: whenever connectMQTT returns an error (from Connect before its
\* wait, from Connect after its wait, or from Subscribe), the flag is false.
C18_FailureLeavesDisconnected ==
    (/\ ev.op \in {"Connect", "ConnectReturn", "Subscribe"}
     /\ ev.res \notin {"started", "ok"})
        => ~connected

\* C19: Connect with an empty server address or with a password that does
\* not decrypt, and only then, returns its error at once: the session
\* handle, the sessions and the flag are as before and no callback is made.
C19_ConnectRejectsBadConfig ==
    [][ev'.op = "Connect" =>
          /\ (ev'.res # "started") = (config.MQTTServer = "" \/ ~config.pwok)
          /\ config.MQTTServer = "" => ev'.res = "MQTT server not configured"
          /\ (config.MQTTServer # "" /\ ~config.pwok)
                => ev'.res = "failed to decrypt password"
          /\ ev'.res # "started" =>
                /\ client' = client
                /\ sess' = sess
                /\ connected' = connected
                /\ ev'.trace = <<>>
                /\ thr' = [thr EXCEPT !["ui"].pc = "idle"]
                   \/ thr' = [thr EXCEPT !["auto"].pc = "off"]]_vars

\* C19 witness: the connect of a settings change to an empty server address
\* has returned its error while the client had a session from before
C19_Witness ==
    /\ ev.op = "Connect" /\ ev.res = "MQTT server not configured"
    /\ config.MQTTServer = ""
    /\ client # 0 /\ sess[client].st = "closed"
    /\ thr["ui"].pc = "idle"

\* C20: the log never holds more entries than its capacity; the capacity
\* is the constructor's argument, or 1000 when the argument is not positive;
\* no step changes it.
C20_LogWithinCapacity ==
    /\ [](/\ Len(messageLog) <= maxSize
          /\ ev.op = "NewMessageLog" =>
                maxSize = (IF ev.trace[1][2] <= 0 THEN 1000 ELSE ev.trace[1][2]))
    /\ [][maxSize' = maxSize]_vars

\* C20 witness: an append to a log that was full has left it full
C20_Witness ==
    /\ ev.op = "AddMessage"
    /\ ev.trace[1] = <<"len", maxSize>>
    /\ Len(messageLog) = maxSize /\ maxSize = MaxSize
    /\ messageLog[1] # messageLog[2]

\* C21: the sequence GetAll returns holds the min(count, capacity) most
\* recent of the count entries appended since the last Clear, the newest
\* first, each older one after it, in exact reverse order of the appends:
\* what was evicted is the oldest entries.
C21_GetAllNewestFirst ==
    ev.op = "GetAll" =>
        LET result == ev.trace[1][2]
            count == Len(caller.appended)
            kept == IF count < maxSize THEN count ELSE maxSize
        IN  /\ Len(result) = kept
            /\ \A i \in 1..kept : result[i] = caller.appended[count - i + 1]

\* C21 witness: GetAll has returned the entries of a log of capacity MaxSize
\* to which more than MaxSize entries, not all alike, were appended
C21_Witness ==
    /\ ev.op = "GetAll" /\ maxSize = MaxSize
    /\ Len(caller.appended) > maxSize
    /\ Len(ev.trace[1][2]) = maxSize
    /\ ev.trace[1][2][1] # ev.trace[1][2][2]
    /\ caller.appended[1] # caller.appended[Len(caller.appended)]

Holds(devices, deviceName, outletNumber) ==
    \E k \in DOMAIN devices :
        devices[k].DeviceName = deviceName /\ devices[k].OutletNumber = outletNumber

\* C23: the store never holds two records of one identity; the upsert that
\* a status message causes leaves the number of records as it was when the
\* store held a record of the message's identity, and grows it by one when
\* it held none.
C23_OneRecordPerIdentity ==
    /\ [](\A j, k \in DOMAIN deviceStore :
             (/\ deviceStore[j].DeviceName = deviceStore[k].DeviceName
              /\ deviceStore[j].OutletNumber = deviceStore[k].OutletNumber)
                => j = k)
    /\ [][(ev'.op = "Message" /\ InTrace(<<"store.add">>)') =>
             LET id == ParseTopic(Delivered(ev')[2])
             IN  Cardinality(DOMAIN deviceStore') =
                    Cardinality(DOMAIN deviceStore)
                       + (IF Holds(deviceStore, id.device, id.outlet) THEN 0 ELSE 1)]_vars

\* s comes before t in the lexicographic order of strings
RECURSIVE LexLess(_, _)
LexLess(s, t) ==
    IF t = <<>> THEN FALSE
    ELSE IF s = <<>> THEN TRUE
    ELSE IF s[1] # t[1] THEN Code(s[1]) < Code(t[1])
    ELSE LexLess(Tail(s), Tail(t))

\* record x comes before record y: by device name, then by outlet number
RecordLess(x, y) ==
    \/ LexLess(x.DeviceName, y.DeviceName)
    \/ x.DeviceName = y.DeviceName /\ LexLess(x.OutletNumber, y.OutletNumber)

\* C24: whatever the store holds and in whatever order the map is visited,
\* the sequence GetAll returns has every stored record at exactly one place
\* and nothing else, and each record in it comes before the next one by
\* device name and, for the same device name, by outlet number.
C24_GetAllSorted ==
    ev.op = "GetDevices" =>
        LET result == ev.trace[1][2]
        IN  /\ Len(result) = Cardinality(DOMAIN deviceStore)
            /\ \A k \in DOMAIN deviceStore :
                  Cardinality({i \in 1..Len(result) : result[i] = deviceStore[k]}) = 1
            /\ \A i \in 1..(Len(result) - 1) : RecordLess(result[i], result[i + 1])

\* C24 witness: GetAll has returned three records, two of one device whose
\* outlets "10" and "2" order as strings, and one of a device "B" that
\* orders before "a"
C24_Witness ==
    /\ ev.op = "GetDevices" /\ Len(ev.trace[1][2]) = 3
    /\ ev.trace[1][2][1].DeviceName = <<"B">>
    /\ ev.trace[1][2][2].DeviceName = <<"a">>
    /\ ev.trace[1][2][2].OutletNumber = <<"1", "0">>
    /\ ev.trace[1][2][3].DeviceName = <<"a">>
    /\ ev.trace[1][2][3].OutletNumber = <<"2">>

\* s has a place from which it reads as sub, letter case apart
ContainsFold(s, sub) ==
    \E i \in 0..(Len(s) - Len(sub)) :
        \A j \in 1..Len(sub) : ToUpper(<<s[i + j]>>) = ToUpper(<<sub[j]>>)

\* C25: the sequence Filter returns for a search text is what GetAll returns
\* for the same store, less the records none of whose device name, outlet
\* number and status contains the text, letter case apart, the others in the
\* same order; for the empty text it is what GetAll returns.
C25_FilterSelectsFromGetAll ==
    ev.op = "SearchDevices" =>
        LET searchText == ev.trace[1][2]
            result == ev.trace[2][2]
            Wanted(device) ==
                \/ ContainsFold(device.DeviceName, searchText)
                \/ ContainsFold(device.OutletNumber, searchText)
                \/ ContainsFold(device.Status, searchText)
        IN  \A order \in Orders(deviceStore) :
                /\ result = SelectSeq(DeviceStoreGetAll(deviceStore, order), Wanted)
                /\ searchText = <<>> => result = DeviceStoreGetAll(deviceStore, order)

\* C25 witness: of three stored records the search for "A" has returned the
\* two whose device name has an "a", and left out the one of device "B"
C25_Witness ==
    /\ ev.op = "SearchDevices" /\ ev.trace[1][2] = <<"A">>
    /\ Cardinality(DOMAIN deviceStore) = 3
    /\ Len(ev.trace[2][2]) = 2
    /\ ev.trace[2][2][1].DeviceName = <<"a">>
    /\ ev.trace[2][2][2].DeviceName = <<"a", "b">>
    /\ \E k \in DOMAIN deviceStore : deviceStore[k].DeviceName = <<"B">>

\* C26: a delivered topic that is not of exactly four segments "power",
\* a device, "outlets", an outlet, the two names not empty, is not decoded:
\* its message, the echo of a command among them, leaves the store as it was.
C26_OnlyFourSegmentsDecoded ==
    [][ev'.op = "Message" =>
          LET topic == Delivered(ev')[2]
          IN  ~IsStatusTopic(topic) =>
                 /\ ~ParseTopic(topic).ok
                 /\ deviceStore' = deviceStore]_vars

NoSlash(s) == \A i \in 1..Len(s) : s[i] # "/"

\* C27: for a device name and an outlet number that are not empty and hold
\* no "/", decoding the status topic made of them succeeds and returns
\* exactly the two.
C27_StatusTopicRoundTrip ==
    ev.op = "ParseTopic" =>
        LET device == ev.trace[1][2]
            outlet == ev.trace[1][3]
            result == ev.trace[2][2]
        IN  (device # <<>> /\ outlet # <<>> /\ NoSlash(device) /\ NoSlash(outlet))
               => result = [ok |-> TRUE, device |-> device, outlet |-> outlet]

\* C27 witness: the topic of a device "a:" and an outlet " S" was decoded
C27_Witness ==
    /\ ev.op = "ParseTopic"
    /\ ev.trace[1] = <<"arg", <<"a", ":">>, <<" ", "S">> >>
    /\ ev.trace[2][2].ok /\ ev.trace[2][2].outlet = <<" ", "S">>

\* C28: encoding what decoding returned for the payload "0" or "1" gives
\* the payload back.
C28_PayloadRoundTrip ==
    (ev.op = "StatusToPayload(ParsePayload)" /\ ev.trace[1][2] \in {<<"0">>, <<"1">>})
        => ev.trace[3][2] = ev.trace[1][2]

\* C28 witness: "1" was decoded to ON and ON encoded to "1"
C28_Witness ==
    /\ ev.op = "StatusToPayload(ParsePayload)"
    /\ ev.trace[1][2] = <<"1">> /\ ev.trace[2][2] = <<"O", "N">>
    /\ ev.trace[3][2] = <<"1">>

\* C29 as stated: for every text that is not empty, not "0" and not "1",
\* decoding returns the trimmed text and encoding the upper-cased trimmed text.
C29_OtherTextsPassThrough ==
    LET s == ev.trace[1][2]
    IN  /\ (ev.op = "ParsePayload" /\ s \notin {<<>>, <<"0">>, <<"1">>})
              => ev.trace[2][2] = TrimSpace(s)
        /\ (ev.op = "StatusToPayload" /\ s \notin {<<>>, <<"0">>, <<"1">>})
              => ev.trace[2][2] = ToUpper(TrimSpace(s))

\* C29 amended: for every text that is not empty and whose trimmed form is
\* neither "0" nor "1", decoding returns the trimmed text; for every text
\* that is not empty, not "0" and not "1" and whose trimmed, upper-cased form
\* is neither "ON" nor "OFF", encoding returns that form.
C29_OtherTextsPassThroughAmended ==
    LET s == ev.trace[1][2]
    IN  /\ (/\ ev.op = "ParsePayload" /\ s # <<>>
            /\ TrimSpace(s) \notin {<<"0">>, <<"1">>})
              => ev.trace[2][2] = TrimSpace(s)
        /\ (/\ ev.op = "StatusToPayload" /\ s \notin {<<>>, <<"0">>, <<"1">>}
            /\ ToUpper(TrimSpace(s)) \notin {<<"O", "N">>, <<"O", "F", "F">>})
              => ev.trace[2][2] = ToUpper(TrimSpace(s))

\* C29 witness: " o " was decoded to "o"
C29_Witness ==
    /\ ev.op = "ParsePayload"
    /\ ev.trace[1][2] = <<" ", "o", " ">>
    /\ ev.trace[2][2] = <<"o">>

\* C30: decoding returns OFF for a text that is "0" once the blanks around
\* it are gone, ON for one that is "1", and the text without those blanks
\* otherwise; encoding returns "1" for a text that is "ON" once trimmed and
\* upper-cased, "0" for one that is "OFF", and the trimmed upper-cased text
\* otherwise, and returns the same for the text in upper and in lower case.
C30_PayloadCodec ==
    LET s == ev.trace[1][2]
        t == TrimSpace(s)
        result == ev.trace[2][2]
    IN  /\ ev.op = "ParsePayload" =>
              /\ t = <<"0">> => result = <<"O", "F", "F">>
              /\ t = <<"1">> => result = <<"O", "N">>
              /\ t \notin {<<"0">>, <<"1">>} => result = t
        /\ ev.op = "StatusToPayload" =>
              /\ ToUpper(t) = <<"O", "N">> => result = <<"1">>
              /\ ToUpper(t) = <<"O", "F", "F">> => result = <<"0">>
              /\ ToUpper(t) \notin {<<"O", "N">>, <<"O", "F", "F">>}
                    => result = ToUpper(t)
              /\ StatusToPayload(ToUpper(s)) = result
              /\ StatusToPayload(ToLower(s)) = result

\* C30 witness: " oN" was encoded to "1"
C30_Witness ==
    /\ ev.op = "StatusToPayload"
    /\ ev.trace[1][2] = <<" ", "o", "N">>
    /\ ev.trace[2][2] = <<"1">>

\* C31: the device store changes only in the handling of an inbound message
\* whose topic decodes, which upserts the decoded record, and in the clear
\* of a settings change, which empties it; a command (sent or failed),
\* ClearLog, Disconnect, a link loss, a reconnect, the handlers of the
\* connection state and the reads GetDevices, SearchDevices and GetMessages
\* leave it as it is; and no step removes a record while others stay.
C31_StoreFrame ==
    [][/\ deviceStore' # deviceStore =>
              \/ /\ ev'.op = "Message"
                 /\ ParseTopic(Delivered(ev')[2]).ok
                 /\ deviceStore' =
                       Add(deviceStore,
                           [DeviceName |-> ParseTopic(Delivered(ev')[2]).device,
                            OutletNumber |-> ParseTopic(Delivered(ev')[2]).outlet,
                            Status |-> ParsePayload(Delivered(ev')[3])])
              \/ /\ ev'.op = "Connect"
                 /\ thr["ui"].pc = "connect"
                 /\ deviceStore' = NewDeviceStore
       /\ ev'.op \in {"SendCommand", "ClearLog", "Disconnect", "LinkLoss",
                      "Restore", "ConnAck", "ConnectionLost", "GetDevices",
                      "SearchDevices", "GetMessages"}
              => deviceStore' = deviceStore
       /\ (ev'.op = "Message" /\ ~ParseTopic(Delivered(ev')[2]).ok)
              => deviceStore' = deviceStore
       /\ \/ DOMAIN deviceStore \subseteq DOMAIN deviceStore'
          \/ deviceStore' = NewDeviceStore
      ]_vars

\* C31 witness: a command was sent while the store holds a record
C31_Witness ==
    /\ ev.op = "SendCommand" /\ ev.res = "ok"
    /\ deviceStore # NewDeviceStore

\* C32: a ClearLog leaves the log empty, emits the log-cleared notification
\* exactly once, and leaves the device store, the client's connected flag,
\* the live session and every session's state as they were.
C32_ClearLog ==
    [][ev'.op = "ClearLog" =>
          /\ messageLog' = <<>>
          /\ Cardinality({i \in 1..Len(ev'.trace) :
                             ev'.trace[i] = <<"emit", "log:cleared">>}) = 1
          /\ Len(ev'.trace) = 1
          /\ deviceStore' = deviceStore
          /\ connected' = connected /\ client' = client /\ sess' = sess
      ]_vars

\* C32 witness: the log was cleared while the store held a record and the
\* client was connected
C32_Witness ==
    /\ ev.op = "ClearLog"
    /\ messageLog = <<>>
    /\ deviceStore # NewDeviceStore
    /\ connected /\ sess[client].st = "connected"

\* C35: an upsert for the identity of a status message leaves the record of
\* every other identity, compared as a pair of device name and outlet
\* number, in the store and as it was, also when the names hold a ':'.
C35_UpsertLeavesOthers ==
    [][(ev'.op = "Message" /\ InTrace(<<"store.add">>)') =>
          LET id == ParseTopic(Delivered(ev')[2])
          IN  \A k \in DOMAIN deviceStore :
                 <<deviceStore[k].DeviceName, deviceStore[k].OutletNumber>>
                       # <<id.device, id.outlet>>
                    => \E j \in DOMAIN deviceStore' : deviceStore'[j] = deviceStore[k]
      ]_vars

\* C36: every step that changes the flag IsConnected reports calls the
\* status callback with the new value, or is the return of a Connect whose
\* session still has the on-connect handler to run, which will report it;
\* a Disconnect that changes the flag is such a step.
C36_FlagChangesReported ==
    [][connected' # connected =>
          \/ connected' /\ InTrace(<<"cb.status", connectionCallback, "true">>)'
          \/ ~connected' /\ InTrace(<<"cb.status", connectionCallback, "false">>)'
          \/ /\ ev'.op = "ConnectReturn" /\ connected'
             /\ sess'[ev'.s].queue # <<>>
             /\ sess'[ev'.s].queue[Len(sess'[ev'.s].queue)] \in {"connect", "reconnect"}
      ]_vars

\* C37: when the link of the client's session is lost and its
\* connection-lost handler has run, with no on-connect event of the session
\* since, IsConnected reports false and a command is not published.
C37_LostLinkIsDisconnected ==
    (/\ client # 0
     /\ sess[client].st = "reconnecting"
     /\ sess[client].queue = <<>>
     /\ sess[client].notified = "false")
        => /\ ~connected
           /\ ev.op = "SendCommand" => ev.res # "ok"

\* C40: the Subscribe of a connectMQTT that succeeds is the first request
\* for the filter on the link of its session, and the handler of the
\* initial connect issues no request to a session on which the Subscribe of
\* connectMQTT has succeeded: only the handler of a restore issues another.
C40_SubscribeOnce ==
    [][/\ (ev'.op = "Subscribe" /\ ev'.res = "ok")
             => config.SubscribeString \notin sess[client].subs
       /\ (ev'.op = "OnConnect" /\ ev'.wire # "none")
             => ~sess[client].subok
      ]_vars

\* C38: no configuration with a port outside 1..65535 becomes the current
\* one, and a SaveSettings that returns an error (refused port, failed
\* encryption, failed save) leaves the configuration, the connected flag,
\* the client's session and every session's state, the device store, the
\* message log and the caller's place as they were.
C38_RefusedSettingsChangeNothing ==
    /\ [](config.ServerPort \in 1..65535)
    /\ [][(ev'.op = "SaveSettings" /\ ev'.res # "") =>
             /\ config' = config
             /\ connected' = connected
             /\ client' = client /\ sess' = sess
             /\ deviceStore' = deviceStore
             /\ messageLog' = messageLog
             /\ thr' = thr]_vars

\* C38 witness: settings with a port out of range were refused while the
\* client was connected and the store and the log held a message's record
C38_Witness ==
    /\ ev.op = "SaveSettings" /\ ev.res = "invalid configuration"
    /\ connected /\ client # 0 /\ sess[client].st = "connected"
    /\ deviceStore # NewDeviceStore /\ messageLog # <<>>
    /\ config = StoredConfig(TRUE)

\* C33: a caller that waits in Connect leaves the wait, and a caller that is
\* about to subscribe gets the result of its Subscribe, whatever the
\* sessions do and also when they do nothing; and whenever the UI is not in
\* a call, a Disconnect and a command (so a Publish) can run to their return.
C33_CallsReturn ==
    /\ \A t \in Threads : (thr[t].pc = "wait") ~> (thr[t].pc # "wait")
    /\ \A t \in Threads : (thr[t].pc = "sub") ~> (thr[t].pc # "sub")
    /\ [](thr["ui"].pc = "idle" =>
             /\ ENABLED Disconnect
             /\ ENABLED SendCommand(<<"a">>, <<"1">>, <<"o", "n">>))

\* C33 witness: Connect has returned "connection timeout" from the wait for
\* a session that has not answered
C33_Witness ==
    /\ ev.op = "ConnectReturn" /\ ev.res = "connection timeout"
    /\ sess[ev.s].st = "connecting"

\* C34: no goroutine reads the log or the store while a mutation of it is
\* being applied, and every read returns the content as it is when the read
\* returns, which no mutation is then changing: GetAll of the log returns
\* the whole log, within its capacity, Count its length, GetAll and Filter
\* of the store what they compute from the whole map.
C34_NoTornRead ==
    /\ \A obj \in {"log", "store"} : mu[obj].w => mu[obj].r = 0
    /\ ev.op \in {"MessageLog.GetAll", "MessageLog.Count"} => ~mu.log.w
    /\ ev.op \in {"DeviceStore.GetAll", "DeviceStore.Filter"} => ~mu.store.w
    /\ ev.op = "MessageLog.GetAll" =>
          /\ ev.trace[1][2] = GetAll(messageLog)
          /\ Len(ev.trace[1][2]) <= maxSize
    /\ ev.op = "MessageLog.Count" => ev.trace[1][2] = Len(messageLog)
    /\ ev.op = "DeviceStore.GetAll" =>
          \E order \in Orders(deviceStore) :
             ev.trace[1][2] = DeviceStoreGetAll(deviceStore, order)
    /\ ev.op = "DeviceStore.Filter" =>
          \E order \in Orders(deviceStore) :
             ev.trace[1][2] = DeviceStoreFilter(deviceStore, order, <<"o", "N">>)

\* C34 witness: GetAll has returned the full log to one reader while the
\* other reader is inside a read of the log and the writer inside an upsert
C34_Witness ==
    /\ ev.op = "MessageLog.GetAll" /\ Len(ev.trace[1][2]) = maxSize
    /\ mu.log.r = 1 /\ mu.store.w
    /\ goroutine["w"].pc = "assigned" /\ goroutine["w"].op = "Add"

\* C39: a goroutine that is about to call a callback or to wait on the
\* session holds no lock of the client; a goroutine that asks for the lock
\* does not hold it; and whenever goroutines are inside the client's
\* handlers and methods, one of them can run its next statement, also when
\* the body of the callback calls IsConnected, Publish, Subscribe,
\* SetMessageCallback or Disconnect.
C39_NoLockAcrossCallback ==
    /\ \A g \in ClientGoroutines :
          goroutine[g].pc = "in" =>
             /\ Head(goroutine[g].loc.todo) \in {"callback", "wait"}
                   => goroutine[g].loc.holds = ""
             /\ Head(goroutine[g].loc.todo) \in {"Lock", "RLock"}
                   => goroutine[g].loc.holds = ""
    /\ (\E g \in ClientGoroutines : goroutine[g].pc = "in")
          => \E g \in ClientGoroutines : goroutine[g].pc = "in" /\ CanStep(g)

\* C39 witness: the callback of the on-connect handler calls Disconnect,
\* which waits for the lock that a foreground IsConnected holds for reading
C39_Witness ==
    /\ goroutine["h"].pc = "in" /\ goroutine["h"].op = "OnConnectHandler"
    /\ goroutine["h"].loc.incb /\ Head(goroutine["h"].loc.todo) = "Lock"
    /\ goroutine["f"].pc = "in" /\ goroutine["f"].op = "IsConnected"
    /\ goroutine["f"].loc.holds = "r"

====
